---- MODULE Spec2Model ----
(***************************************************************************)
(* Website performance checker and SEO checker (local-perf-checker.py,     *)
(* remote-perf-checker.py, local-seo-checker.py).                          *)
(*                                                                         *)
(* One entry point is called at a time: check_website_performance,         *)
(* analyze_page_seo, check_multiple_websites or the check_multiple_ttfb    *)
(* tool.  Each per-URL coroutine is a task; the event loop is              *)
(* single-threaded, so everything a coroutine does between two awaits is   *)
(* one step.  What the network does for a GET is the environment: it is    *)
(* fixed per target URL when the entry point is called.                    *)
(*                                                                         *)
(* URLs and messages are strings.  Times are integers in thousandths of a  *)
(* millisecond; reported times are in hundredths of a millisecond (the     *)
(* code rounds to two decimals).  The "timestamp" field of a result is     *)
(* left out.                                                               *)
(***************************************************************************)
EXTENDS Integers, Sequences, FiniteSets, TLC

VARIABLES
    op,      \* the entry point in progress: "idle", "perf", "seo", "batch", "ttfb"
    urls,    \* its argument: the list of URLs (a single-URL call: <<url>>)
    server,  \* environment: target URL -> what a GET on it does
    tasks,   \* the per-URL coroutines, by position in urls
    pc,      \* the caller: "idle", "called", "awaiting", "returned", "raised"
    ret,     \* what the call returned (or the exception it raised)
    args     \* the arguments of a method called on its own (<<>> for an entry point)

vars == <<op, urls, server, tasks, pc, ret, args>>

----------------------------------------------------------------------------
(* Bounds of the model *)

\* longest list of URLs with freely mixed entries
MaxBatch == 3

----------------------------------------------------------------------------
(* Strings and numbers *)

StartsWith(s, p) == Len(s) >= Len(p) /\ SubSeq(s, 1, Len(p)) = p

HasChar(s, c) == \E i \in 1..Len(s) : SubSeq(s, i, i) = c

\* Python's round(): n/d to the nearest integer, a tie to the even one (n >= 0, d > 0)
RoundDiv(n, d) ==
    LET q == n \div d
        r == n % d
    IN  IF 2 * r < d THEN q
        ELSE IF 2 * r > d THEN q + 1
        ELSE IF q % 2 = 0 THEN q ELSE q + 1

\* milliseconds in the model's time unit
Ms(n) == n * 1000

\* round(x, 2) of a time: thousandths of a ms to hundredths of a ms
Round2(x) == RoundDiv(x, 10)

\* {} and []
EmptyDict == <<>>
EmptyList == <<>>

Populated(d) == DOMAIN d # {}

\* s repeated n times
RECURSIVE Repeat(_, _)
Repeat(s, n) ==
    IF n = 0 THEN ""
    ELSE LET half == Repeat(s, n \div 2)
         IN  IF n % 2 = 0 THEN half \o half ELSE half \o half \o s

Chars(s) == [i \in 1..Len(s) |-> SubSeq(s, i, i)]

IsSpace(c) == c \in {" ", "\n", "\t", "\r"}

SetMin(S) == CHOOSE i \in S : \A j \in S : i <= j
SetMax(S) == CHOOSE i \in S : \A j \in S : i >= j

\* str.strip()
Strip(s) ==
    LET keep == {i \in 1..Len(s) : ~IsSpace(SubSeq(s, i, i))}
    IN  IF keep = {} THEN "" ELSE SubSeq(s, SetMin(keep), SetMax(keep))

\* str.count(c) for a one-character c
CountChar(s, c) == Cardinality({i \in 1..Len(s) : SubSeq(s, i, i) = c})

\* 'sub' in s
Contains(s, sub) ==
    \E i \in 1..(Len(s) - Len(sub) + 1) : SubSeq(s, i, i + Len(sub) - 1) = sub

LowerLetters == "abcdefghijklmnopqrstuvwxyz"
UpperLetters == "ABCDEFGHIJKLMNOPQRSTUVWXYZ"

UpperChar(c) ==
    IF \E i \in 1..26 : SubSeq(LowerLetters, i, i) = c
        THEN LET i == CHOOSE k \in 1..26 : SubSeq(LowerLetters, k, k) = c
             IN  SubSeq(UpperLetters, i, i)
    ELSE c

LowerChar(c) ==
    IF \E i \in 1..26 : SubSeq(UpperLetters, i, i) = c
        THEN LET i == CHOOSE k \in 1..26 : SubSeq(UpperLetters, k, k) = c
             IN  SubSeq(LowerLetters, i, i)
    ELSE c

\* str.upper(), str.lower()
RECURSIVE Upper(_)
Upper(s) == IF s = "" THEN "" ELSE UpperChar(SubSeq(s, 1, 1)) \o Upper(SubSeq(s, 2, Len(s)))

RECURSIVE Lower(_)
Lower(s) == IF s = "" THEN "" ELSE LowerChar(SubSeq(s, 1, 1)) \o Lower(SubSeq(s, 2, Len(s)))

\* str.split(c) for a one-character separator: the pieces, empty ones included
RECURSIVE SplitOn(_, _)
SplitOn(s, c) ==
    LET at == {i \in 1..Len(s) : SubSeq(s, i, i) = c}
    IN  IF at = {} THEN <<s>>
        ELSE <<SubSeq(s, 1, SetMin(at) - 1)>>
                 \o SplitOn(SubSeq(s, SetMin(at) + 1, Len(s)), c)

\* len(s.split()): the number of whitespace-separated words
WordCount(s) ==
    Cardinality({i \in 1..Len(s) :
        /\ ~IsSpace(SubSeq(s, i, i))
        /\ (i = 1 \/ IsSpace(SubSeq(s, i - 1, i - 1)))})

\* an element or attribute the document lacks (find() / get() giving None), or has
NoTag == [exists |-> FALSE]
Tag(text, content) == [exists |-> TRUE, text |-> text, content |-> content]
NoAttr == [exists |-> FALSE]
Attr(v) == [exists |-> TRUE, value |-> v]

\* tag.get(name, ''): the attribute's value, '' without it
AttrOr(a, default) == IF a.exists THEN a.value ELSE default

\* Python truth of tag.get(name): the attribute exists and is not ''
AttrTruthy(a) == a.exists /\ a.value # ""

----------------------------------------------------------------------------
(* URLs *)

\* url.startswith(('http://', 'https://'))
HasProtocol(url) == StartsWith(url, "http://") \/ StartsWith(url, "https://")

\* a normalization that looks for "http" only
NormalizeUrlHttpPrefix(url) == IF ~StartsWith(url, "http") THEN "https://" \o url ELSE url

\* if not url.startswith(('http://', 'https://')): url = f'https://{url}'
NormalizeUrl(url) == IF ~HasProtocol(url) THEN "https://" \o url ELSE url

\* urlsplit: the netloc is what follows "scheme://" up to the first of / ? #
\* (no netloc when the string has no "//" after its scheme)
Netloc(url) ==
    LET k    == IF StartsWith(url, "https://") THEN 8
                ELSE IF StartsWith(url, "http://") THEN 7 ELSE Len(url)
        rest == SubSeq(url, k + 1, Len(url))
        ends == {i \in 1..Len(rest) : SubSeq(rest, i, i) \in {"/", "?", "#"}}
        stop == IF ends = {} THEN Len(rest)
                ELSE (CHOOSE i \in ends : \A j \in ends : i <= j) - 1
    IN  SubSeq(rest, 1, stop)

\* urlsplit raises ValueError("Invalid IPv6 URL") on a netloc with an unmatched bracket
UrlParseRaises(url) == HasChar(Netloc(url), "[") # HasChar(Netloc(url), "]")

InvalidUrlMsg == "Invalid IPv6 URL"

\* parsed_url.hostname: None without a netloc (the inputs here have no port,
\* no user info and no upper case, so the hostname is the netloc)
NoHostname == ""
Hostname(url) == Netloc(url)

----------------------------------------------------------------------------
(* The environment: documents, and what a GET does *)

\* a well-made page: 45-character title, 140-character description, one H1,
\* 400 words, three images with alt text, the four Open Graph essentials
GoodPage ==
    [doctype     |-> TRUE,
     lang        |-> Attr("en"),
     charset     |-> Attr("utf-8"),
     http_equiv_charset |-> NoAttr,
     title       |-> Tag(" A title of forty-five characters " \o Repeat("x", 12) \o "\n", NoAttr),
     description |-> Tag("", Attr(Repeat("description ", 11) \o "of pages")),
     keywords    |-> NoTag,
     robots      |-> NoTag,
     viewport    |-> Tag("", Attr("width=device-width, initial-scale=1")),
     canonical   |-> Tag("", Attr("https://a/")),
     h           |-> << <<"The heading">>, <<"One", "Two">>, <<>>, <<>>, <<>>, <<>> >>,
     text        |-> Repeat("word ", 400),
     html_size   |-> 6000,
     imgs        |-> <<Attr("a cat"), Attr("a dog"), Attr("a bird")>>,
     schema_scripts |-> 1,
     og          |-> << [key |-> "title", content |-> Attr("T")],
                        [key |-> "description", content |-> Attr("D")],
                        [key |-> "image", content |-> Attr("I")],
                        [key |-> "url", content |-> Attr("U")] >>,
     twitter     |-> << [key |-> "card", content |-> Attr("summary")],
                        [key |-> "title", content |-> Attr("T")],
                        [key |-> "description", content |-> Attr("D")] >>]

\* a poor page: no title, no description, no header, a few words, images
\* without alt text, robots "NOINDEX, nofollow"
PoorPage ==
    [doctype     |-> FALSE,
     lang        |-> NoAttr,
     charset     |-> NoAttr,
     http_equiv_charset |-> Attr("iso-8859-1"),
     title       |-> NoTag,
     description |-> Tag("", Attr("")),
     keywords    |-> Tag("", Attr(" a, b ")),
     robots      |-> Tag("", Attr("NOINDEX, nofollow")),
     viewport    |-> NoTag,
     canonical   |-> Tag("", Attr("/page")),
     h           |-> << <<>>, <<>>, <<>>, <<>>, <<>>, <<>> >>,
     text        |-> "only a few words",
     html_size   |-> 2000,
     imgs        |-> <<NoAttr, Attr("  "), Attr("logo")>>,
     schema_scripts |-> 0,
     og          |-> << [key |-> "title", content |-> Attr("T")],
                        [key |-> "image", content |-> NoAttr] >>,
     twitter     |-> <<>>]

\* the body of an error response
ErrorPage ==
    [PoorPage EXCEPT !.title = Tag("Error", NoAttr), !.text = "Error", !.html_size = 100,
                     !.imgs = <<>>, !.robots = NoTag, !.og = <<>>]

\* an HTTP exchange that completes: status, reason, body size in bytes, the
\* document, the elapsed times at headers (t1) and after the body (t2), the
\* final URL after redirects ("" = the requested URL), the number of redirects
Http(code, reason, size, page, t1, t2, final, hops) ==
    [kind |-> "http", code |-> code, reason |-> reason, size |-> size, page |-> page,
     t1 |-> t1, t2 |-> t2, final |-> final, hops |-> hops]

\* asyncio.TimeoutError: str(e) is ""
TimedOut == [kind |-> "timeout", text |-> ""]

\* aiohttp.ClientError
ClientError == [kind |-> "client_error", text |-> "Cannot connect to host"]

\* any other exception out of the exchange
OtherError == [kind |-> "exception", text |-> "unexpected failure"]

Behaviours ==
    { Http(200, "OK", 20480, GoodPage, Ms(150), Ms(350), "", 0),
      Http(200, "OK", 1000, PoorPage, Ms(600) + 4, Ms(3500) + 8, "http://r/", 1),
      Http(404, "Not Found", 512, ErrorPage, Ms(90), Ms(120), "", 0),
      Http(500, "Internal Server Error", 0, ErrorPage, Ms(1500), Ms(9000), "", 0),
      TimedOut, ClientError, OtherError }

IsFailure(b) == b.kind # "http"

----------------------------------------------------------------------------
(* WebsitePerformanceChecker *)

\* self.default_timeout
PerfDefaultTimeout == 30

TimeoutMsg(n) == "Request timed out after " \o ToString(n) \o " seconds"

NetworkErrorMsg(text) == "Network error: " \o text

\* a grading in which one bound of a tier is enough
GradePerformanceOr(ttfb, total_time) ==
    IF ttfb <= Ms(200) \/ total_time <= Ms(1000) THEN "A+"
    ELSE IF ttfb <= Ms(500) \/ total_time <= Ms(2000) THEN "A"
    ELSE IF ttfb <= Ms(800) \/ total_time <= Ms(3000) THEN "B"
    ELSE IF ttfb <= Ms(1200) \/ total_time <= Ms(5000) THEN "C"
    ELSE IF ttfb <= Ms(2000) \/ total_time <= Ms(8000) THEN "D"
    ELSE "F"

\* a grading with the comparison of one bound turned round
GradePerformanceFlipped(ttfb, total_time) ==
    IF ttfb <= Ms(200) /\ total_time <= Ms(1000) THEN "A+"
    ELSE IF ttfb <= Ms(500) /\ total_time >= Ms(2000) THEN "A"
    ELSE IF ttfb <= Ms(800) /\ total_time <= Ms(3000) THEN "B"
    ELSE IF ttfb <= Ms(1200) /\ total_time <= Ms(5000) THEN "C"
    ELSE IF ttfb <= Ms(2000) /\ total_time <= Ms(8000) THEN "D"
    ELSE "F"

GradePerformance(ttfb, total_time) ==
    IF ttfb <= Ms(200) /\ total_time <= Ms(1000) THEN "A+"
    ELSE IF ttfb <= Ms(500) /\ total_time <= Ms(2000) THEN "A"
    ELSE IF ttfb <= Ms(800) /\ total_time <= Ms(3000) THEN "B"
    ELSE IF ttfb <= Ms(1200) /\ total_time <= Ms(5000) THEN "C"
    ELSE IF ttfb <= Ms(2000) /\ total_time <= Ms(8000) THEN "D"
    ELSE "F"

\* recommendations without the message that stands in for an empty list
GetRecommendationsNoFallback(ttfb, total_time) ==
    (IF ttfb > Ms(1000)
         THEN <<"High TTFB detected - consider server optimization or CDN">>
     ELSE IF ttfb > Ms(500)
         THEN <<"TTFB could be improved with server-side caching">>
     ELSE <<>>)
    \o (IF total_time > Ms(5000)
            THEN <<"Page load time is slow - optimize images and resources">>
        ELSE IF total_time > Ms(3000)
            THEN <<"Consider minifying CSS/JS and enabling compression">>
        ELSE <<>>)

GetRecommendations(ttfb, total_time) ==
    LET r1 == IF ttfb > Ms(1000)
                  THEN <<"High TTFB detected - consider server optimization or CDN">>
              ELSE IF ttfb > Ms(500)
                  THEN <<"TTFB could be improved with server-side caching">>
              ELSE <<>>
        r2 == IF total_time > Ms(5000)
                  THEN <<"Page load time is slow - optimize images and resources">>
              ELSE IF total_time > Ms(3000)
                  THEN <<"Consider minifying CSS/JS and enabling compression">>
              ELSE <<>>
    IN  IF r1 \o r2 = <<>>
            THEN <<"Performance looks good! Consider monitoring regularly">>
        ELSE r1 \o r2

\* the dict _measure_performance returns when the exchange completes
PerfData(url, b) ==
    LET ttfb          == b.t1
        total_time    == b.t2
        download_time == total_time - ttfb
    IN  [performance |->
            [ttfb_ms            |-> Round2(ttfb),
             total_time_ms      |-> Round2(total_time),
             download_time_ms   |-> Round2(download_time),
             content_size_bytes |-> b.size,
             content_size_kb    |-> RoundDiv(b.size * 100, 1024),
             grade              |-> GradePerformance(ttfb, total_time),
             recommendations    |-> GetRecommendations(ttfb, total_time)],
         response |->
            [status_code |-> b.code,
             status_text |-> b.reason,
             final_url   |-> IF b.final = "" THEN url ELSE b.final,
             redirects   |-> b.hops]]

\* a GET that raises for a 4xx/5xx status (raise_for_status): not what the code does
MeasurePerformanceRaiseForStatus(url, b) ==
    IF b.kind = "http" /\ b.code < 400
        THEN [raised |-> FALSE, data |-> PerfData(url, b)]
    ELSE IF b.kind = "http"
        THEN [raised |-> TRUE, msg |-> NetworkErrorMsg(ToString(b.code))]
    ELSE IF b.kind = "timeout"
        THEN [raised |-> TRUE, msg |-> TimeoutMsg(PerfDefaultTimeout)]
    ELSE IF b.kind = "client_error"
        THEN [raised |-> TRUE, msg |-> NetworkErrorMsg(b.text)]
    ELSE [raised |-> TRUE, msg |-> b.text]

\* _measure_performance: the dict, or the exception leaving it
MeasurePerformance(url, b) ==
    IF b.kind = "http"
        THEN [raised |-> FALSE, data |-> PerfData(url, b)]
    ELSE IF b.kind = "timeout"
        THEN [raised |-> TRUE, msg |-> TimeoutMsg(PerfDefaultTimeout)]
    ELSE IF b.kind = "client_error"
        THEN [raised |-> TRUE, msg |-> NetworkErrorMsg(b.text)]
    ELSE [raised |-> TRUE, msg |-> b.text]

\* check_website_performance: results before the try block
PerfInitialResults(url) ==
    [url         |-> url,
     hostname    |-> Hostname(url),
     status      |-> "unknown",
     performance |-> EmptyDict,
     response    |-> EmptyDict,
     errors      |-> EmptyList]

\* an except block that records the message and leaves the status as it was
PerfFinishNoStatus(results, b) ==
    LET m == MeasurePerformance(results.url, b)
    IN  IF m.raised
            THEN [results EXCEPT !.errors = Append(@, m.msg)]
        ELSE [results EXCEPT !.performance = m.data.performance,
                             !.response = m.data.response,
                             !.status = "success"]

\* check_website_performance: the try block, once the exchange has ended
PerfFinish(results, b) ==
    LET m == MeasurePerformance(results.url, b)
    IN  IF m.raised
            THEN [results EXCEPT !.status = "error", !.errors = Append(@, m.msg)]
        ELSE [results EXCEPT !.performance = m.data.performance,
                             !.response = m.data.response,
                             !.status = "success"]

----------------------------------------------------------------------------
(* SEOChecker: the extractors.  A page is the parsed document (what          *)
(* BeautifulSoup's find / find_all / get_text give) with the size of the raw *)
(* HTML.                                                                     *)

\* self.default_timeout
SeoDefaultTimeout == 20

\* _extract_charset
ExtractCharset(page) ==
    IF page.charset.exists THEN page.charset
    ELSE IF page.http_equiv_charset.exists THEN page.http_equiv_charset
    ELSE NoAttr

\* _analyze_page_info
AnalyzePageInfo(page_data, page) ==
    [status_code  |-> page_data.status.code,
     final_url    |-> page_data.status.final_url,
     load_time_ms |-> page_data.timing.total_ms,
     page_size_kb |-> RoundDiv(page_data.timing.size_bytes * 100, 1024),
     has_doctype  |-> page.doctype,
     language     |-> page.lang,
     charset      |-> ExtractCharset(page)]

\* a title analysis that finds a title of 30 characters too short
AnalyzeTitleOffByOne(page) ==
    IF ~page.title.exists
        THEN [exists |-> FALSE, content |-> "", length |-> 0,
              issues |-> <<"Missing title tag">>, score |-> 0]
    ELSE
    LET title_text == Strip(page.title.text)
        n          == Len(title_text)
        many_sep   == CountChar(title_text, "|") > 2
        all_caps   == Upper(title_text) = title_text /\ n > 10
    IN  [exists |-> TRUE, content |-> title_text, length |-> n,
         issues |-> (IF n = 0 THEN <<"Title tag is empty">>
                     ELSE IF n <= 30 THEN <<"Title is too short (< 30 characters)">>
                     ELSE IF n > 60
                         THEN <<"Title may be truncated in search results (> 60 characters)">>
                     ELSE <<>>)
                    \o (IF many_sep THEN <<"Too many separators in title">> ELSE <<>>)
                    \o (IF all_caps THEN <<"Title is in ALL CAPS">> ELSE <<>>),
         score  |-> 100 - (IF n = 0 THEN 50 ELSE IF n <= 30 THEN 20 ELSE IF n > 60 THEN 10 ELSE 0)
                        - (IF many_sep THEN 5 ELSE 0) - (IF all_caps THEN 10 ELSE 0)]

\* _analyze_title
AnalyzeTitle(page) ==
    IF ~page.title.exists
        THEN [exists |-> FALSE, content |-> "", length |-> 0,
              issues |-> <<"Missing title tag">>, score |-> 0]
    ELSE
    LET title_text   == Strip(page.title.text)
        title_length == Len(title_text)
        len_issue == IF title_length = 0 THEN <<"Title tag is empty">>
                     ELSE IF title_length < 30 THEN <<"Title is too short (< 30 characters)">>
                     ELSE IF title_length > 60
                         THEN <<"Title may be truncated in search results (> 60 characters)">>
                     ELSE <<>>
        len_pen   == IF title_length = 0 THEN 50
                     ELSE IF title_length < 30 THEN 20
                     ELSE IF title_length > 60 THEN 10
                     ELSE 0
        many_sep  == CountChar(title_text, "|") > 2
        all_caps  == Upper(title_text) = title_text /\ Len(title_text) > 10
        issues    == len_issue
                        \o (IF many_sep THEN <<"Too many separators in title">> ELSE <<>>)
                        \o (IF all_caps THEN <<"Title is in ALL CAPS">> ELSE <<>>)
        score     == 100 - len_pen - (IF many_sep THEN 5 ELSE 0) - (IF all_caps THEN 10 ELSE 0)
    IN  [exists |-> TRUE, content |-> title_text, length |-> title_length,
         issues |-> issues, score |-> IF score > 0 THEN score ELSE 0]

\* a description analysis that takes a content of blanks for a missing one
AnalyzeMetaDescriptionTrimFirst(page) ==
    IF ~page.description.exists \/ ~AttrTruthy(page.description.content)
           \/ Strip(AttrOr(page.description.content, "")) = ""
        THEN [exists |-> FALSE, content |-> "", length |-> 0,
              issues |-> <<"Missing meta description">>, score |-> 0]
    ELSE
    LET desc_text == Strip(page.description.content.value)
        n         == Len(desc_text)
    IN  [exists |-> TRUE, content |-> desc_text, length |-> n,
         issues |-> IF n < 120 THEN <<"Meta description is too short (< 120 characters)">>
                    ELSE IF n > 160
                        THEN <<"Meta description may be truncated (> 160 characters)">>
                    ELSE <<>>,
         score  |-> 100 - (IF n < 120 THEN 15 ELSE IF n > 160 THEN 10 ELSE 0)]

\* _analyze_meta_description
AnalyzeMetaDescription(page) ==
    IF ~page.description.exists \/ ~AttrTruthy(page.description.content)
        THEN [exists |-> FALSE, content |-> "", length |-> 0,
              issues |-> <<"Missing meta description">>, score |-> 0]
    ELSE
    LET desc_text   == Strip(page.description.content.value)
        desc_length == Len(desc_text)
        issues == IF desc_length = 0 THEN <<"Meta description is empty">>
                  ELSE IF desc_length < 120
                      THEN <<"Meta description is too short (< 120 characters)">>
                  ELSE IF desc_length > 160
                      THEN <<"Meta description may be truncated (> 160 characters)">>
                  ELSE <<>>
        score  == 100 - (IF desc_length = 0 THEN 50
                         ELSE IF desc_length < 120 THEN 15
                         ELSE IF desc_length > 160 THEN 10
                         ELSE 0)
    IN  [exists |-> TRUE, content |-> desc_text, length |-> desc_length,
         issues |-> issues, score |-> IF score > 0 THEN score ELSE 0]

\* _analyze_meta_keywords
AnalyzeMetaKeywords(page) ==
    IF ~page.keywords.exists
        THEN [exists |-> FALSE, note |-> "Meta keywords not used (good - they're obsolete)"]
    ELSE [exists |-> TRUE, content |-> Strip(AttrOr(page.keywords.content, "")),
          note |-> "Meta keywords are obsolete and ignored by search engines"]

\* a robots extractor that looks for the words anywhere in the content
AnalyzeRobotsMetaSubstring(page) ==
    IF ~page.robots.exists
        THEN [exists |-> FALSE, directives |-> <<>>, issues |-> <<>>]
    ELSE
    LET content    == Lower(AttrOr(page.robots.content, ""))
        parts      == SplitOn(content, ",")
        directives == [i \in 1..Len(parts) |-> Strip(parts[i])]
    IN  [exists |-> TRUE, directives |-> directives,
         issues |->
            (IF Contains(content, "noindex")
                 THEN <<"Page is set to NOINDEX - won't appear in search results">>
             ELSE <<>>)
            \o (IF Contains(content, "nofollow")
                    THEN <<"Page is set to NOFOLLOW - links won't be followed">>
                ELSE <<>>)]

\* _analyze_robots_meta
AnalyzeRobotsMeta(page) ==
    IF ~page.robots.exists
        THEN [exists |-> FALSE, directives |-> <<>>, issues |-> <<>>]
    ELSE
    LET content    == Lower(AttrOr(page.robots.content, ""))
        parts      == SplitOn(content, ",")
        directives == [i \in 1..Len(parts) |-> Strip(parts[i])]
        has(d)     == \E i \in 1..Len(directives) : directives[i] = d
    IN  [exists |-> TRUE, directives |-> directives,
         issues |->
            (IF has("noindex")
                 THEN <<"Page is set to NOINDEX - won't appear in search results">>
             ELSE <<>>)
            \o (IF has("nofollow")
                    THEN <<"Page is set to NOFOLLOW - links won't be followed">>
                ELSE <<>>)]

\* _analyze_viewport_meta
AnalyzeViewportMeta(page) ==
    IF ~page.viewport.exists
        THEN [exists |-> FALSE,
              issues |-> <<"Missing viewport meta tag - may not be mobile-friendly">>]
    ELSE
    LET content == AttrOr(page.viewport.content, "")
    IN  [exists |-> TRUE, content |-> content,
         issues |->
            (IF ~Contains(content, "width=")
                 THEN <<"Viewport should specify width">> ELSE <<>>)
            \o (IF ~Contains(content, "initial-scale=")
                    THEN <<"Viewport should specify initial-scale">> ELSE <<>>)]

\* _analyze_canonical (the tag's content field holds its href)
AnalyzeCanonical(page) ==
    IF ~page.canonical.exists
        THEN [exists |-> FALSE,
              issues |-> <<"Missing canonical URL - may cause duplicate content issues">>]
    ELSE
    LET canonical_url == AttrOr(page.canonical.content, "")
    IN  [exists |-> TRUE, url |-> canonical_url,
         issues |-> IF canonical_url = ""
                        THEN <<"Canonical tag exists but has no href">>
                    ELSE IF ~HasProtocol(canonical_url)
                        THEN <<"Canonical URL should be absolute">>
                    ELSE <<>>]

\* _analyze_meta_tags
AnalyzeMetaTags(page) ==
    [description |-> AnalyzeMetaDescription(page),
     keywords    |-> AnalyzeMetaKeywords(page),
     robots      |-> AnalyzeRobotsMeta(page),
     viewport    |-> AnalyzeViewportMeta(page),
     canonical   |-> AnalyzeCanonical(page)]

\* tag.get_text().strip()[:100]
HeaderSample(text) ==
    LET t == Strip(text) IN IF Len(t) > 100 THEN SubSeq(t, 1, 100) ELSE t

\* a header analysis with a penalty of 60 an issue
AnalyzeHeadersSteep(page) ==
    LET h1_count == Len(page.h[1])
        structure_issues ==
            (IF h1_count = 0 THEN <<"Missing H1 tag">>
             ELSE IF h1_count > 1
                 THEN <<"Multiple H1 tags found (" \o ToString(h1_count)
                            \o ") - should have only one">>
             ELSE <<>>)
            \o (IF \A i \in 1..6 : page.h[i] = <<>> THEN <<"No header tags found">> ELSE <<>>)
    IN  [structure |-> [i \in 1..6 |-> [count |-> Len(page.h[i]), content |-> page.h[i]]],
         issues    |-> structure_issues,
         score     |-> 100 - (Len(structure_issues) * 60)]

\* _analyze_headers (page.h[i] holds the texts of the <h i> elements, in order)
AnalyzeHeaders(page) ==
    LET headers == [i \in 1..6 |->
                       [count   |-> Len(page.h[i]),
                        content |-> [k \in 1..(IF Len(page.h[i]) > 5 THEN 5 ELSE Len(page.h[i]))
                                        |-> HeaderSample(page.h[i][k])]]]
        h1_count == headers[1].count
        has_headers == \E i \in 1..6 : headers[i].count > 0
        structure_issues ==
            (IF h1_count = 0 THEN <<"Missing H1 tag">>
             ELSE IF h1_count > 1
                 THEN <<"Multiple H1 tags found (" \o ToString(h1_count)
                            \o ") - should have only one">>
             ELSE <<>>)
            \o (IF ~has_headers THEN <<"No header tags found">> ELSE <<>>)
    IN  [structure |-> headers,
         issues    |-> structure_issues,
         score     |-> 100 - (Len(structure_issues) * 15)]

\* _analyze_content (html_size is len(html_content))
AnalyzeContent(page, html_size) ==
    LET text_content == page.text
        word_count   == WordCount(text_content)
        text_size    == Len(text_content)
        thin         == word_count < 300
        very_thin    == ~thin /\ word_count < 150
        \* text_ratio < 15, with text_ratio = text_size / html_size * 100, or 0
        low_ratio    == IF html_size > 0 THEN text_size * 100 < 15 * html_size ELSE TRUE
        score        == 100 - (IF thin THEN 25 ELSE IF very_thin THEN 40 ELSE 0)
                            - (IF low_ratio THEN 15 ELSE 0)
    IN  [word_count         |-> word_count,
         character_count    |-> text_size,
         text_to_html_ratio |-> IF html_size > 0 THEN RoundDiv(text_size * 1000, html_size) ELSE 0,
         issues |->
            (IF thin THEN <<"Content is thin (< 300 words)">>
             ELSE IF very_thin THEN <<"Very thin content (< 150 words)">>
             ELSE <<>>)
            \o (IF low_ratio THEN <<"Low text-to-HTML ratio (< 15%)">> ELSE <<>>),
         score |-> IF score > 0 THEN score ELSE 0]

\* an alt test that takes blanks for a text
HasAltTextUntrimmed(alt) == alt.exists /\ alt.value # ""

\* alt_text is not None and alt_text.strip()
HasAltText(alt) == alt.exists /\ Strip(alt.value) # ""

\* _analyze_images (page.imgs holds the alt attribute of each <img>)
AnalyzeImages(page) ==
    LET total_images == Len(page.imgs)
        images_with_alt    == Cardinality({i \in 1..total_images : HasAltText(page.imgs[i])})
        images_without_alt == Cardinality({i \in 1..total_images : ~HasAltText(page.imgs[i])})
    IN  IF total_images = 0
            THEN [total_images |-> 0, images_with_alt |-> 0, images_without_alt |-> 0,
                  issues |-> <<"No images found">>, score |-> 100]
        ELSE [total_images       |-> total_images,
              images_with_alt    |-> images_with_alt,
              images_without_alt |-> images_without_alt,
              alt_percentage     |-> RoundDiv(images_with_alt * 1000, total_images),
              issues |-> IF images_without_alt > 0
                             THEN <<ToString(images_without_alt) \o " images missing alt text">>
                         ELSE <<>>,
              score  |-> RoundDiv(images_with_alt * 100, total_images)]

\* a technical extractor whose load-time thresholds are inclusive
AnalyzeTechnicalSeoInclusive(page, page_data) ==
    LET load_time == page_data.timing.total_ms
        is_https  == StartsWith(page_data.status.final_url, "https")
    IN  [https             |-> is_https,
         load_time_ms      |-> load_time,
         page_size_kb      |-> RoundDiv(page_data.timing.size_bytes * 100, 1024),
         has_schema_markup |-> page.schema_scripts > 0,
         schema_types      |-> page.schema_scripts,
         issues |->
            (IF load_time >= 3000 * 100 THEN <<"Slow page load time (> 3 seconds)">>
             ELSE IF load_time >= 2000 * 100
                 THEN <<"Page load time could be improved (> 2 seconds)">>
             ELSE <<>>)
            \o (IF ~is_https THEN <<"Page is not served over HTTPS">> ELSE <<>>)]

\* _analyze_technical_seo (load_time is in hundredths of a ms)
AnalyzeTechnicalSeo(page, page_data) ==
    LET load_time == page_data.timing.total_ms
        is_https  == StartsWith(page_data.status.final_url, "https")
    IN  [https             |-> is_https,
         load_time_ms      |-> load_time,
         page_size_kb      |-> RoundDiv(page_data.timing.size_bytes * 100, 1024),
         has_schema_markup |-> page.schema_scripts > 0,
         schema_types      |-> page.schema_scripts,
         issues |->
            (IF load_time > 3000 * 100 THEN <<"Slow page load time (> 3 seconds)">>
             ELSE IF load_time > 2000 * 100
                 THEN <<"Page load time could be improved (> 2 seconds)">>
             ELSE <<>>)
            \o (IF ~is_https THEN <<"Page is not served over HTTPS">> ELSE <<>>)]

\* the dict built from a list of meta tags [key, content]: a later tag overwrites
\* an earlier one with the same key; a tag without content gives ''
TagDict(metas) ==
    [k \in {metas[i].key : i \in 1..Len(metas)} |->
        AttrOr(metas[SetMax({i \in 1..Len(metas) : metas[i].key = k})].content, "")]

\* a sum that counts a key whatever its value
EssentialScoreAnyValue(tags, essential, points) ==
    points * Cardinality({k \in essential : k \in DOMAIN tags})

\* sum(points for tag in essential if tag in tags and tags[tag])
EssentialScore(tags, essential, points) ==
    points * Cardinality({k \in essential : k \in DOMAIN tags /\ tags[k] # ""})

EssentialOg == {"title", "description", "image", "url"}
EssentialTwitter == {"card", "title", "description"}

\* _analyze_social_media_tags
AnalyzeSocialMediaTags(page) ==
    LET og_tags       == TagDict(page.og)
        twitter_tags  == TagDict(page.twitter)
        og_score      == EssentialScore(og_tags, EssentialOg, 25)
        twitter_score == EssentialScore(twitter_tags, EssentialTwitter, 33)
    IN  [open_graph |->
            [tags |-> og_tags, score |-> og_score, has_essential |-> og_score = 100],
         twitter_cards |->
            [tags |-> twitter_tags,
             score |-> IF twitter_score < 100 THEN twitter_score ELSE 100,
             has_essential |-> twitter_score >= 100]]

\* technical advice that looks for "slow" without lower-casing the issue
TechAdviceCaseSensitive(issues) ==
    LET Https(issue) == Contains(issue, "HTTPS")
        Slow(issue)  == ~Contains(issue, "HTTPS") /\ Contains(issue, "slow")
    IN  [recommendations |->
            [i \in 1..Len(SelectSeq(issues, Slow)) |-> "Improve page load speed"],
         critical_issues |->
            [i \in 1..Len(SelectSeq(issues, Https)) |-> "Implement SSL certificate (HTTPS)"]]

\* the entries _generate_recommendations appends for the technical issues, in order
RECURSIVE TechAdvice(_)
TechAdvice(issues) ==
    IF issues = <<>> THEN [recommendations |-> <<>>, critical_issues |-> <<>>]
    ELSE LET rest == TechAdvice(Tail(issues))
             issue == Head(issues)
         IN  IF Contains(issue, "HTTPS")
                 THEN [rest EXCEPT !.critical_issues =
                          <<"Implement SSL certificate (HTTPS)">> \o @]
             ELSE IF Contains(Lower(issue), "slow")
                 THEN [rest EXCEPT !.recommendations = <<"Improve page load speed">> \o @]
             ELSE rest

\* _generate_recommendations
GenerateRecommendations(results) ==
    LET title == results.title_analysis
        desc  == results.meta_analysis.description
        h1    == results.header_analysis.structure[1].count
        tech  == TechAdvice(results.technical_seo.issues)
        without_alt == results.image_analysis.images_without_alt
    IN  [recommendations |->
            (IF title.exists /\ title.length < 30
                 THEN <<"Expand title tag (aim for 30-60 characters)">> ELSE <<>>)
            \o (IF desc.exists /\ desc.length < 120
                    THEN <<"Expand meta description (aim for 120-160 characters)">> ELSE <<>>)
            \o (IF results.content_analysis.word_count < 300
                    THEN <<"Increase content length (aim for 300+ words)">> ELSE <<>>)
            \o (IF without_alt > 0
                    THEN <<"Add alt text to " \o ToString(without_alt) \o " images">> ELSE <<>>)
            \o tech.recommendations
            \o (IF ~results.social_media.open_graph.has_essential
                    THEN <<"Add Open Graph tags for better social media sharing">> ELSE <<>>),
         critical_issues |->
            (IF ~title.exists THEN <<"Add a title tag to the page">> ELSE <<>>)
            \o (IF ~desc.exists THEN <<"Add a meta description tag">> ELSE <<>>)
            \o (IF h1 = 0 THEN <<"Add an H1 tag to the page">> ELSE <<>>)
            \o tech.critical_issues,
         warnings |->
            (IF title.exists /\ title.length >= 30 /\ title.length > 60
                 THEN <<"Consider shortening title tag to avoid truncation">> ELSE <<>>)
            \o (IF h1 > 1 THEN <<"Use only one H1 tag per page">> ELSE <<>>)]

\* the technical score of _calculate_seo_score
TechScore(issues) ==
    LET tech_score == 100 - Len(issues) * 20
    IN  IF tech_score > 0 THEN tech_score ELSE 0

\* a score that leaves the technical sub-score out
CalculateSeoScoreNoTech(results) ==
    RoundDiv(results.title_analysis.score * 20
             + results.meta_analysis.description.score * 15
             + results.header_analysis.score * 15
             + results.content_analysis.score * 20
             + results.image_analysis.score * 10, 100)

\* _calculate_seo_score: round(sum(scores)), the weights in hundredths
CalculateSeoScore(results) ==
    RoundDiv(results.title_analysis.score * 20
             + results.meta_analysis.description.score * 15
             + results.header_analysis.score * 15
             + results.content_analysis.score * 20
             + results.image_analysis.score * 10
             + TechScore(results.technical_seo.issues) * 20, 100)

----------------------------------------------------------------------------
(* SEOChecker: fetch and analysis *)

\* _fetch_page_with_timing: every exception of the exchange ends as a
\* zero-filled page_data with status code 0 and str(e) as its text
FetchPageWithTiming(url, b) ==
    IF b.kind = "http"
        THEN [content |-> b.page,
              status  |-> [code |-> b.code, text |-> b.reason,
                           final_url |-> IF b.final = "" THEN url ELSE b.final],
              timing  |-> [ttfb_ms |-> Round2(b.t1), total_ms |-> Round2(b.t2),
                           size_bytes |-> b.size]]
    ELSE [content |-> "",
          status  |-> [code |-> 0, text |-> b.text, final_url |-> url],
          timing  |-> [ttfb_ms |-> 0, total_ms |-> 0, size_bytes |-> 0]]

CannotAccessMsg(status) ==
    "Cannot access page: " \o ToString(status.code) \o " " \o status.text

\* analyze_page_seo: results before the try block
SeoInitialResults(url) ==
    [url              |-> url,
     domain           |-> Netloc(url),
     status           |-> "unknown",
     seo_score        |-> 0,
     page_info        |-> EmptyDict,
     title_analysis   |-> EmptyDict,
     meta_analysis    |-> EmptyDict,
     header_analysis  |-> EmptyDict,
     content_analysis |-> EmptyDict,
     image_analysis   |-> EmptyDict,
     technical_seo    |-> EmptyDict,
     social_media     |-> EmptyDict,
     recommendations  |-> EmptyList,
     critical_issues  |-> EmptyList,
     warnings         |-> EmptyList,
     errors           |-> EmptyList]

\* the statements of the try block after the parse, in order
SeoSteps == 10

\* statement k of the analysis
SeoStep(k, r, page_data) ==
    LET page == page_data.content
    IN  CASE k = 1 -> [r EXCEPT !.page_info = AnalyzePageInfo(page_data, page)]
          [] k = 2 -> [r EXCEPT !.title_analysis = AnalyzeTitle(page)]
          [] k = 3 -> [r EXCEPT !.meta_analysis = AnalyzeMetaTags(page)]
          [] k = 4 -> [r EXCEPT !.header_analysis = AnalyzeHeaders(page)]
          [] k = 5 -> [r EXCEPT !.content_analysis = AnalyzeContent(page, page.html_size)]
          [] k = 6 -> [r EXCEPT !.image_analysis = AnalyzeImages(page)]
          [] k = 7 -> [r EXCEPT !.technical_seo = AnalyzeTechnicalSeo(page, page_data)]
          [] k = 8 -> [r EXCEPT !.social_media = AnalyzeSocialMediaTags(page)]
          [] k = 9 -> LET g == GenerateRecommendations(r)
                      IN  [r EXCEPT !.recommendations = g.recommendations,
                                    !.critical_issues = g.critical_issues,
                                    !.warnings = g.warnings]
          [] k = 10 -> [r EXCEPT !.seo_score = CalculateSeoScore(r)]

\* statements from..to of the analysis
RECURSIVE SeoRun(_, _, _, _)
SeoRun(r, from, to, page_data) ==
    IF from > to THEN r ELSE SeoRun(SeoStep(from, r, page_data), from + 1, to, page_data)

AnalysisErrorMsg == "analysis failure"

\* a check that lets every answered status code through to the analysis
StatusOkAny(code) == code # 0

\* only a 200 is analysed
StatusOk(code) == code = 200

\* analyze_page_seo: the try block, once the exchange has ended.  failAt = 0:
\* no statement raises; failAt = k: statement k raises (the parse when k = 1
\* raises before any assignment, like statement 1)
SeoFinish(results, b, failAt) ==
    LET page_data == FetchPageWithTiming(results.url, b)
    IN  IF ~StatusOk(page_data.status.code)
            THEN [results EXCEPT !.errors = Append(@, CannotAccessMsg(page_data.status)),
                                 !.status = "error"]
        ELSE IF failAt = 0
            THEN [SeoRun(results, 1, SeoSteps, page_data) EXCEPT !.status = "success"]
        ELSE [SeoRun(results, 1, failAt - 1, page_data)
                  EXCEPT !.status = "error", !.errors = Append(@, AnalysisErrorMsg)]

----------------------------------------------------------------------------
(* The per-URL coroutines *)

NoException == ""

\* the coroutine up to its first suspension: normalization, urlparse (outside
\* the try block: its ValueError leaves the coroutine), results, the GET
StartTask(url, initial) ==
    LET u == NormalizeUrl(url)
    IN  IF UrlParseRaises(u)
            THEN [pc |-> "raised", url |-> u, results |-> EmptyDict,
                  exc |-> InvalidUrlMsg, gets |-> 0]
        ELSE [pc |-> "fetching", url |-> u,
              results |-> IF initial = "seo" THEN SeoInitialResults(u)
                          ELSE PerfInitialResults(u),
              exc |-> NoException, gets |-> 1]

\* a failed exchange is tried once more: not what the code does
PerfTaskStepRetry(t, b) ==
    IF IsFailure(b) /\ t.gets < 2
        THEN [t EXCEPT !.gets = @ + 1]
    ELSE [t EXCEPT !.pc = "done", !.results = PerfFinish(t.results, b)]

\* check_website_performance from the end of the exchange to its return
PerfTaskStep(t, b) ==
    [t EXCEPT !.pc = "done", !.results = PerfFinish(t.results, b)]

\* analyze_page_seo from the end of the exchange to its return
SeoTaskStep(t, b, failAt) ==
    [t EXCEPT !.pc = "done", !.results = SeoFinish(t.results, b, failAt)]

Concluded(t) == t.pc \in {"done", "raised"}

----------------------------------------------------------------------------
(* check_multiple_websites *)

\* one timeout for the whole batch: when it fires every fetch in flight ends
\* with it: not what the code does
RunTaskSharedTimeout(ts, i, srv) ==
    IF srv[ts[i].url].kind = "timeout"
        THEN [j \in DOMAIN ts |->
                 IF ts[j].pc = "fetching" THEN PerfTaskStep(ts[j], TimedOut) ELSE ts[j]]
    ELSE [ts EXCEPT ![i] = PerfTaskStep(@, srv[@.url])]

\* one errors list shared by the results of all coroutines: not what the code does
RunTaskSharedErrors(ts, i, srv) ==
    LET t == PerfTaskStep(ts[i], srv[ts[i].url])
    IN  [j \in DOMAIN ts |->
            IF j = i THEN t
            ELSE IF ts[j].pc # "raised"
                THEN [ts[j] EXCEPT !.results.errors = t.results.errors]
            ELSE ts[j]]

\* the exchange of task i ends: each coroutine has its own session and its own
\* timeout, and concludes alone
RunTask(ts, i, srv) == [ts EXCEPT ![i] = PerfTaskStep(@, srv[@.url])]

ReturnExceptionsOff == FALSE

\* asyncio.gather(*tasks, return_exceptions=True)
ReturnExceptions == TRUE

\* gather's future is done: with return_exceptions, when every child is;
\* without, also as soon as one child has raised
GatherReady(ts) ==
    \/ \A i \in DOMAIN ts : Concluded(ts[i])
    \/ ~ReturnExceptions /\ \E i \in DOMAIN ts : ts[i].pc = "raised"

\* the results in the reverse of the order of the arguments: not what gather does
GatherValueReversed(ts) ==
    [i \in 1..Len(ts) |->
        LET t == ts[Len(ts) + 1 - i]
        IN  IF t.pc = "raised" THEN [exception |-> t.exc] ELSE t.results]

\* gather's list: child i's result, or its exception, at position i
GatherValue(ts) ==
    [i \in 1..Len(ts) |->
        IF ts[i].pc = "raised" THEN [exception |-> ts[i].exc] ELSE ts[i].results]

\* await asyncio.gather(...): the list, or the first exception without return_exceptions
Gather(ts) ==
    IF ~ReturnExceptions /\ \E i \in DOMAIN ts : ts[i].pc = "raised"
        THEN [raised |-> TRUE,
              exc |-> ts[SetMin({i \in DOMAIN ts : ts[i].pc = "raised"})].exc]
    ELSE [raised |-> FALSE, value |-> GatherValue(ts)]

\* isinstance(result, Exception)
IsException(result) == "exception" \in DOMAIN result

\* the loop over enumerate(results)
ProcessedResults(us, results) ==
    [i \in 1..Len(results) |->
        IF IsException(results[i])
            THEN [url |-> us[i], status |-> "error", errors |-> <<results[i].exception>>]
        ELSE results[i]]

----------------------------------------------------------------------------
(* check_multiple_ttfb *)

\* the tool's limit on the number of URLs
MaxUrls == 10

TooManyOffByOne(us) == Len(us) >= MaxUrls

\* len(urls) > 10
TooMany(us) == Len(us) > MaxUrls

NoUrlsMsg == "Error: Please provide at least one URL"
TooManyMsg == "Error: Maximum 10 URLs allowed"

\* '; '.join(errors)
RECURSIVE JoinErrors(_)
JoinErrors(errors) ==
    IF errors = <<>> THEN ""
    ELSE IF Len(errors) = 1 THEN errors[1]
    ELSE errors[1] \o "; " \o JoinErrors(Tail(errors))

\* one line of the summary
RenderLine(result) ==
    IF result.status = "error"
        THEN [mark |-> "error",
              hostname |-> IF Hostname(result.url) # NoHostname
                               THEN Hostname(result.url) ELSE result.url,
              text |-> JoinErrors(result.errors)]
    ELSE [mark |-> IF result.response.status_code = 200 THEN "green"
                   ELSE IF result.response.status_code >= 200
                           /\ result.response.status_code < 400 THEN "yellow"
                   ELSE "red",
          hostname |-> result.hostname,
          ttfb_ms |-> result.performance.ttfb_ms,
          grade |-> result.performance.grade,
          status_code |-> result.response.status_code]

\* the summary of check_multiple_ttfb; urlparse(result["url"]) of an error
\* entry raises again on a URL that urlparse rejects
RenderResults(results) ==
    IF \E i \in 1..Len(results) :
           results[i].status = "error" /\ UrlParseRaises(results[i].url)
        THEN [raised |-> TRUE, exc |-> InvalidUrlMsg]
    ELSE [raised |-> FALSE,
          value |-> [count |-> Len(results),
                     lines |-> [i \in 1..Len(results) |-> RenderLine(results[i])]]]

----------------------------------------------------------------------------
(* Inputs *)

\* the URLs of the single-URL calls
Urls == {"a", "https://a", "http://b", "httpx", "[", "http://["}

\* the URLs of the lists
BatchUrls == {"a", "http://b", "http://["}

\* the lists of at most n URLs
UrlLists(n) == UNION {[1..k -> BatchUrls] : k \in 0..n}

\* the lists of one URL repeated, as long as the tool accepts and one longer
LongLists == {[i \in 1..k |-> u] : k \in {MaxUrls, MaxUrls + 1}, u \in {"a", "http://["}}

\* the URLs a call fetches
Targets(us) ==
    {NormalizeUrl(us[i]) : i \in {j \in 1..Len(us) : ~UrlParseRaises(NormalizeUrl(us[j]))}}

\* what the network may do for the GETs of a call
Worlds(us) == [Targets(us) -> Behaviours]

----------------------------------------------------------------------------
(* The state machine *)

NoReturn == [kind |-> "none"]
Returned(v) == [kind |-> "value", value |-> v]
Raised(msg) == [kind |-> "exception", msg |-> msg]

Init ==
    /\ op = "idle"
    /\ urls = <<>>
    /\ server = <<>>
    /\ tasks = <<>>
    /\ pc = "idle"
    /\ ret = NoReturn
    /\ args = <<>>

\* a single-URL entry point is called and runs to its first suspension
CallSingle(name, url, srv) ==
    /\ pc = "idle"
    /\ op' = name
    /\ urls' = <<url>>
    /\ server' = srv
    /\ LET t == StartTask(url, name)
       IN  /\ tasks' = <<t>>
           /\ pc' = IF t.pc = "raised" THEN "raised" ELSE "awaiting"
           /\ ret' = IF t.pc = "raised" THEN Raised(t.exc) ELSE NoReturn
    /\ UNCHANGED args

\* perf_checker.check_website_performance(url)
CheckWebsitePerformance(url, srv) == CallSingle("perf", url, srv)

\* seo_checker.analyze_page_seo(url)
AnalyzePageSeo(url, srv) == CallSingle("seo", url, srv)

\* check_multiple_websites up to its await: no task for an empty list
Dispatch(name, us, srv) ==
    /\ op' = name
    /\ urls' = us
    /\ IF us = <<>>
           THEN /\ server' = <<>>
                /\ tasks' = <<>>
                /\ pc' = "returned"
                /\ ret' = Returned(<<>>)
       ELSE /\ server' = srv
            /\ tasks' = [i \in 1..Len(us) |-> StartTask(us[i], "perf")]
            /\ pc' = "awaiting"
            /\ ret' = NoReturn
    /\ UNCHANGED args

\* perf_checker.check_multiple_websites(urls)
CheckMultipleWebsites(us, srv) ==
    /\ pc = "idle"
    /\ Dispatch("batch", us, srv)

\* the check_multiple_ttfb tool
CheckMultipleTtfb(us, srv) ==
    /\ pc = "idle"
    /\ IF us = <<>> \/ TooMany(us)
           THEN /\ op' = "ttfb"
                /\ urls' = us
                /\ server' = <<>>
                /\ tasks' = <<>>
                /\ pc' = "returned"
                /\ ret' = Returned([usage |-> IF us = <<>> THEN NoUrlsMsg ELSE TooManyMsg])
                /\ UNCHANGED args
       ELSE Dispatch("ttfb", us, srv)

\* the exchange of check_website_performance ends; the call returns
PerfFetchDone ==
    /\ op = "perf"
    /\ pc = "awaiting"
    /\ tasks[1].pc = "fetching"
    /\ LET t == PerfTaskStep(tasks[1], server[tasks[1].url])
       IN  /\ tasks' = <<t>>
           /\ pc' = IF t.pc = "done" THEN "returned" ELSE pc
           /\ ret' = IF t.pc = "done" THEN Returned(t.results) ELSE ret
    /\ UNCHANGED <<op, urls, server, args>>

\* the exchange of analyze_page_seo ends; the analysis runs (a statement of it
\* may raise); the call returns
SeoFetchDone(failAt) ==
    /\ op = "seo"
    /\ pc = "awaiting"
    /\ tasks[1].pc = "fetching"
    /\ LET t == SeoTaskStep(tasks[1], server[tasks[1].url], failAt)
       IN  /\ tasks' = <<t>>
           /\ pc' = "returned"
           /\ ret' = Returned(t.results)
    /\ UNCHANGED <<op, urls, server, args>>

\* the exchange of one coroutine of a batch ends
BatchFetchDone(i) ==
    /\ op \in {"batch", "ttfb"}
    /\ tasks[i].pc = "fetching"
    /\ tasks' = RunTask(tasks, i, server)
    /\ UNCHANGED <<op, urls, server, pc, ret, args>>

\* gather is done: check_multiple_websites builds its list and returns; the
\* tool renders it
GatherReturn ==
    /\ op \in {"batch", "ttfb"}
    /\ pc = "awaiting"
    /\ GatherReady(tasks)
    /\ LET g == Gather(tasks)
       IN  IF g.raised
               THEN pc' = "raised" /\ ret' = Raised(g.exc)
           ELSE LET processed == ProcessedResults(urls, g.value)
                    rendered  == RenderResults(processed)
                IN  IF op = "batch"
                        THEN pc' = "returned" /\ ret' = Returned(processed)
                    ELSE IF rendered.raised
                        THEN pc' = "raised" /\ ret' = Raised(rendered.exc)
                    ELSE pc' = "returned" /\ ret' = Returned(rendered.value)
    /\ UNCHANGED <<op, urls, server, tasks, args>>

Next ==
    \/ \E url \in Urls : \E srv \in Worlds(<<url>>) : CheckWebsitePerformance(url, srv)
    \/ \E url \in Urls : \E srv \in Worlds(<<url>>) : AnalyzePageSeo(url, srv)
    \/ \E us \in UrlLists(MaxBatch) : \E srv \in Worlds(us) : CheckMultipleWebsites(us, srv)
    \/ \E us \in UrlLists(MaxBatch) \cup LongLists :
           \E srv \in Worlds(us) : CheckMultipleTtfb(us, srv)
    \/ PerfFetchDone
    \/ \E failAt \in 0..SeoSteps : SeoFetchDone(failAt)
    \/ \E i \in DOMAIN tasks : BatchFetchDone(i)
    \/ GatherReturn

Spec == Init /\ [][Next]_vars

\* the scheduling: a started exchange ends (the response arrives or the
\* timeout of its session fires), and the event loop resumes the coroutine
\* that awaits gather once gather's future is done
FairSpec ==
    /\ Spec
    /\ WF_vars(\E i \in DOMAIN tasks : BatchFetchDone(i))
    /\ WF_vars(GatherReturn)

----------------------------------------------------------------------------
(* The methods called on their own, on inputs around their thresholds *)

\* the thresholds of _grade_performance and _get_recommendations, in ms
TtfbThresholds == {200, 500, 800, 1000, 1200, 2000}
TotalThresholds == {1000, 2000, 3000, 5000, 8000}

\* a time on a threshold and just above it, and 0
Around(thresholds) == {0} \cup {Ms(b) : b \in thresholds} \cup {Ms(b) + 1 : b \in thresholds}

TimingArgs == [ttfb : Around(TtfbThresholds), total_time : Around(TotalThresholds)]

\* most header tags of one level in a document
MaxHeaderTags == 2

\* documents with 0..MaxHeaderTags headers of each level H1..H6
HeaderArgs ==
    [page : {[GoodPage EXCEPT !.h = hs] :
                hs \in [1..6 -> {[k \in 1..n |-> " Heading "] : n \in 0..MaxHeaderTags}]}]

\* numbers of words around the thresholds of _analyze_content
WordCounts == {0, 1, 149, 150, 151, 299, 300, 301, 400}

\* documents of that many words, in little or in much markup
ContentArgs ==
    [page : {[GoodPage EXCEPT !.text = Repeat("w ", n), !.html_size = size] :
                n \in WordCounts, size \in {0, 1500, 100000}}]

\* title lengths around the thresholds of _analyze_title
TitleLengths == {0, 1, 3, 10, 11, 29, 30, 31, 45, 59, 60, 61, 62}

\* a text of n characters: k separators, then one letter repeated
TitleText(n, k, letter) ==
    IF n <= k THEN Repeat("|", n) ELSE Repeat("|", k) \o Repeat(letter, n - k)

\* documents by their title: none, or a text in lower or upper case with 0, 2
\* or 3 separators, bare or between blanks
TitleArgs ==
    [page : {[GoodPage EXCEPT !.title = NoTag]}
            \cup {[GoodPage EXCEPT !.title = Tag(pad \o TitleText(n, k, letter) \o pad, NoAttr)] :
                     n \in TitleLengths, k \in {0, 2, 3}, letter \in {"x", "X"},
                     pad \in {"", " "}}]

\* description lengths around the thresholds of _analyze_meta_description
DescriptionLengths == {0, 1, 119, 120, 121, 140, 159, 160, 161}

\* documents by their meta description: no tag, no content attribute, or a
\* content of that length, bare or between blanks
DescriptionArgs ==
    [page : {[GoodPage EXCEPT !.description = NoTag],
             [GoodPage EXCEPT !.description = Tag("", NoAttr)]}
            \cup {[GoodPage EXCEPT !.description = Tag("", Attr(pad \o Repeat("d", n) \o pad))] :
                     n \in DescriptionLengths, pad \in {"", " "}}]

\* most <img> tags in a document
MaxImages == 3

\* what an <img> has for alt: nothing, '', blanks, a text
AltVariants == {NoAttr, Attr(""), Attr("  "), Attr("a cat")}

\* documents by their images
ImageArgs ==
    [page : {[GoodPage EXCEPT !.imgs = imgs] :
                imgs \in UNION {[1..n -> AltVariants] : n \in 0..MaxImages}}]

\* what a document has for a social key: no tag, a tag with an empty content,
\* a tag without content, a tag with a value, a tag with a value and a later
\* one with an empty content
SocialChoices == {"absent", "empty", "bare", "value", "overwritten"}

\* the meta tags of a document that has choice c[i] for keys[i], in order
SocialTags(keys, c) ==
    LET One(i) == CASE c[i] = "absent"      -> <<>>
                    [] c[i] = "empty"       -> <<[key |-> keys[i], content |-> Attr("")]>>
                    [] c[i] = "bare"        -> <<[key |-> keys[i], content |-> NoAttr]>>
                    [] c[i] = "value"       -> <<[key |-> keys[i], content |-> Attr("v")]>>
                    [] c[i] = "overwritten" -> <<[key |-> keys[i], content |-> Attr("v")],
                                                [key |-> keys[i], content |-> Attr("")]>>
        F[i \in 0..Len(keys)] == IF i = 0 THEN <<>> ELSE F[i - 1] \o One(i)
    IN  F[Len(keys)] \o <<[key |-> "site", content |-> Attr("s")]>>

OgKeys == <<"title", "description", "image", "url">>
TwitterKeys == <<"card", "title", "description">>

\* documents by their Open Graph tags, and by their Twitter Card tags
SocialArgs ==
    [page : {[GoodPage EXCEPT !.og = SocialTags(OgKeys, c)] :
                c \in [1..4 -> SocialChoices]}
            \cup {[GoodPage EXCEPT !.twitter = SocialTags(TwitterKeys, c)] :
                     c \in [1..3 -> SocialChoices]}]

\* most directives in a robots content
MaxDirectives == 3

\* what stands between the commas of a robots content
RobotsTokens == {"noindex", " nofollow", " NoFollow ", "index", "", "nofollowing"}

\* ",".join(tokens)
RECURSIVE JoinComma(_)
JoinComma(tokens) ==
    IF Len(tokens) = 1 THEN tokens[1]
    ELSE tokens[1] \o "," \o JoinComma(Tail(tokens))

\* documents by their robots tag: none, one without content, one with directives
RobotsArgs ==
    [page : {[GoodPage EXCEPT !.robots = tag] :
                tag \in {NoTag, Tag("", NoAttr)}
                         \cup {Tag("", Attr(JoinComma(tokens))) :
                                  tokens \in UNION {[1..n -> RobotsTokens] :
                                                        n \in 1..MaxDirectives}}}]

\* the load-time thresholds of _analyze_technical_seo, in ms
LoadThresholds == {2000, 3000}

\* page data of a fetched page: a load time on a threshold, just above it
\* (by a hundredth of a ms) or far from it, a final URL over HTTPS or HTTP
TechArgs ==
    [page : {GoodPage, PoorPage},
     page_data : {FetchPageWithTiming("https://a",
                      Http(200, "OK", 20480, GoodPage, Ms(150), t2, final, hops)) :
                  t2 \in {Ms(350), Ms(9000)} \cup {Ms(b) : b \in LoadThresholds}
                         \cup {Ms(b) + 10 : b \in LoadThresholds},
                  final \in {"", "https://r/", "http://r/"}, hops \in {0, 1}}]

\* documents for the whole analysis: each part good, poor or missing
TitleVariants ==
    {GoodPage.title, NoTag, Tag("Short", NoAttr), Tag(Repeat("LONG | ", 10), NoAttr)}
DescriptionVariants ==
    {GoodPage.description, NoTag, Tag("", Attr(Repeat("d", 170)))}
HeaderVariants ==
    {GoodPage.h, PoorPage.h, << <<"One">>, <<>>, <<>>, <<>>, <<>>, <<>> >>,
     << <<"One", "Two">>, <<>>, <<>>, <<>>, <<>>, <<>> >>}
TextVariants == {GoodPage.text, Repeat("w ", 200), "few words"}
ImageVariants == {GoodPage.imgs, PoorPage.imgs, <<>>}
OgVariants == {GoodPage.og, PoorPage.og}

Documents ==
    {[GoodPage EXCEPT !.title = t, !.description = d, !.h = h, !.text = x, !.imgs = i,
                      !.og = og] :
        t \in TitleVariants, d \in DescriptionVariants, h \in HeaderVariants,
        x \in TextVariants, i \in ImageVariants, og \in OgVariants}

\* exchanges that end with a 200: fast, slower or slow, over HTTPS or redirected to HTTP
AnalysisArgs ==
    [b : {Http(200, "OK", 20480, page, Ms(150), t2, final, 0) :
             page \in Documents,
             t2 \in {Ms(350), Ms(2500), Ms(3500)}, final \in {"", "http://r/"}}]

\* a method is called with args
Called(name, argset) ==
    /\ op = name
    /\ args \in argset

HelperInit ==
    /\ urls = <<>>
    /\ server = <<>>
    /\ tasks = <<>>
    /\ pc = "called"
    /\ ret = NoReturn
    /\ \/ Called("_grade_performance", TimingArgs)
       \/ Called("_get_recommendations", TimingArgs)
       \/ Called("_analyze_headers", HeaderArgs)
       \/ Called("_analyze_content", ContentArgs)
       \/ Called("analysis", AnalysisArgs)
       \/ Called("_analyze_title", TitleArgs)
       \/ Called("_analyze_meta_description", DescriptionArgs)
       \/ Called("_analyze_images", ImageArgs)
       \/ Called("_analyze_technical_seo", TechArgs)
       \/ Called("_analyze_robots_meta", RobotsArgs)
       \/ Called("_analyze_social_media_tags", SocialArgs)

\* the method returns value
Return(name, value) ==
    /\ op = name
    /\ pc = "called"
    /\ pc' = "returned"
    /\ ret' = Returned(value)
    /\ UNCHANGED <<op, urls, server, tasks, args>>

\* self._grade_performance(ttfb, total_time)
GradePerformanceCall ==
    Return("_grade_performance", GradePerformance(args.ttfb, args.total_time))

\* self._get_recommendations(ttfb, total_time)
GetRecommendationsCall ==
    Return("_get_recommendations", GetRecommendations(args.ttfb, args.total_time))

\* self._analyze_headers(soup)
AnalyzeHeadersCall ==
    Return("_analyze_headers", AnalyzeHeaders(args.page))

\* self._analyze_content(soup, page_data["content"])
AnalyzeContentCall ==
    Return("_analyze_content", AnalyzeContent(args.page, args.page.html_size))

\* the try block of analyze_page_seo on a fetched page
AnalysisCall ==
    Return("analysis", SeoFinish(SeoInitialResults("https://a"), args.b, 0))

\* self._analyze_title(soup)
AnalyzeTitleCall ==
    Return("_analyze_title", AnalyzeTitle(args.page))

\* self._analyze_meta_description(soup)
AnalyzeMetaDescriptionCall ==
    Return("_analyze_meta_description", AnalyzeMetaDescription(args.page))

\* self._analyze_images(soup, url)
AnalyzeImagesCall ==
    Return("_analyze_images", AnalyzeImages(args.page))

\* self._analyze_social_media_tags(soup)
AnalyzeSocialMediaTagsCall ==
    Return("_analyze_social_media_tags", AnalyzeSocialMediaTags(args.page))

\* self._analyze_robots_meta(soup)
AnalyzeRobotsMetaCall ==
    Return("_analyze_robots_meta", AnalyzeRobotsMeta(args.page))

\* self._analyze_technical_seo(soup, page_data)
AnalyzeTechnicalSeoCall ==
    Return("_analyze_technical_seo", AnalyzeTechnicalSeo(args.page, args.page_data))

HelperNext ==
    \/ GradePerformanceCall
    \/ GetRecommendationsCall
    \/ AnalyzeHeadersCall
    \/ AnalyzeContentCall
    \/ AnalysisCall
    \/ AnalyzeTitleCall
    \/ AnalyzeMetaDescriptionCall
    \/ AnalyzeImagesCall
    \/ AnalyzeTechnicalSeoCall
    \/ AnalyzeRobotsMetaCall
    \/ AnalyzeSocialMediaTagsCall

HelperSpec == HelperInit /\ [][HelperNext]_vars

----------------------------------------------------------------------------
(* Properties *)

SingleCall == op \in {"perf", "seo"}
BatchCall == op \in {"batch", "ttfb"}

\* what the GET of the single-URL call in progress does
SingleBehaviour == server[tasks[1].url]

SeoSections(r) ==
    <<r.page_info, r.title_analysis, r.meta_analysis, r.header_analysis,
      r.content_analysis, r.image_analysis, r.technical_seo, r.social_media>>

SeoSectionsEmpty(r) == \A k \in 1..8 : ~Populated(SeoSections(r)[k])

\* C1: for every input string, malformed ones included, check_website_performance
\* and analyze_page_seo never raise: they return a result whose status is
\* "success", or "error" with a non-empty errors list.
C1_SingleCallNeverRaises ==
    SingleCall =>
        /\ pc # "raised"
        /\ pc = "returned" =>
              \/ ret.value.status = "success"
              \/ ret.value.status = "error" /\ ret.value.errors # <<>>

\* C2: check_multiple_websites returns a list as long as urls whose entry i is
\* the entry of urls[i] (the URL of entry i is urls[i], normalized unless its
\* check raised, and the entry is what coroutine i ended with), whatever the
\* order in which the fetches end; an empty list gives an empty list and no fetch.
C2_BatchOrderPreserved ==
    (op = "batch" /\ pc = "returned") =>
        /\ Len(ret.value) = Len(urls)
        /\ Len(tasks) = Len(urls)
        /\ \A i \in 1..Len(urls) :
              /\ tasks[i].url = NormalizeUrl(urls[i])
              /\ IF tasks[i].pc = "raised"
                     THEN ret.value[i].url = urls[i] /\ ret.value[i].status = "error"
                 ELSE ret.value[i] = tasks[i].results
                         /\ ret.value[i].url = NormalizeUrl(urls[i])
        /\ urls = <<>> => ret.value = <<>> /\ tasks = <<>>

\* C2's case: a returned batch of three different URLs, a success and failures
C2_Witness ==
    /\ op = "batch" /\ pc = "returned"
    /\ urls = <<"a", "http://b", "http://[">>
    /\ ret.value[1].status = "success"
    /\ ret.value[2].status = "error"

\* the entry a URL gets when it is checked alone
EntryAlone(url) ==
    PerfFinish(PerfInitialResults(NormalizeUrl(url)), server[NormalizeUrl(url)])

\* C3: in check_multiple_websites a failing URL (timeout, network error, or an
\* exception raised by its check) gives an entry with status "error" at its
\* position; every other position holds what its own fetch gives alone; the
\* batch call does not raise.
C3_BatchIsolatesFailures ==
    op = "batch" =>
        /\ pc # "raised"
        /\ pc = "returned" =>
              \A i \in 1..Len(urls) :
                  IF UrlParseRaises(NormalizeUrl(urls[i]))
                      THEN /\ ret.value[i].status = "error"
                           /\ ret.value[i].url = urls[i]
                           /\ Len(ret.value[i].errors) = 1
                  ELSE /\ ret.value[i] = EntryAlone(urls[i])
                       /\ ret.value[i].status =
                              IF IsFailure(server[NormalizeUrl(urls[i])])
                                  THEN "error" ELSE "success"

\* C3's case: the middle URL times out, the last one's check raises, the
\* first one is a well-formed performance result
C3_Witness ==
    /\ op = "batch" /\ pc = "returned"
    /\ urls = <<"a", "http://b", "http://[">>
    /\ server["http://b"] = TimedOut
    /\ ret.value[1].status = "success" /\ Populated(ret.value[1].performance)
    /\ ret.value[2].status = "error"
    /\ ret.value[3].status = "error"

\* C4: analyze_page_seo short-circuits when the fetched status code is not 200:
\* status "error", exactly one entry in errors, no extractor run (the sections
\* empty, seo_score 0, recommendations, critical_issues and warnings empty).
C4_SeoShortCircuit ==
    (op = "seo" /\ pc = "returned"
        /\ FetchPageWithTiming(tasks[1].url, SingleBehaviour).status.code # 200) =>
        /\ ret.value.status = "error"
        /\ Len(ret.value.errors) = 1
        /\ SeoSectionsEmpty(ret.value)
        /\ ret.value.seo_score = 0
        /\ ret.value.recommendations = <<>>
        /\ ret.value.critical_issues = <<>>
        /\ ret.value.warnings = <<>>

\* C4's case: the page answers 404
C4_Witness ==
    /\ op = "seo" /\ pc = "returned"
    /\ SingleBehaviour.kind = "http" /\ SingleBehaviour.code = 404
    /\ ret.value.status = "error"

\* C5: check_website_performance returns "success" with populated performance
\* and response sections for every HTTP status code, 4xx and 5xx included;
\* only a timeout, a network failure or another exception of the fetch gives
\* status "error".
C5_PerfAcceptsAnyStatus ==
    (op = "perf" /\ pc = "returned") =>
        /\ SingleBehaviour.kind = "http" =>
              /\ ret.value.status = "success"
              /\ Populated(ret.value.performance)
              /\ Populated(ret.value.response)
              /\ ret.value.response.status_code = SingleBehaviour.code
        /\ ret.value.status = "error" =>
              SingleBehaviour.kind \in {"timeout", "client_error", "exception"}

\* C5's case: the server answers 500
C5_Witness ==
    /\ op = "perf" /\ pc = "returned"
    /\ SingleBehaviour.kind = "http" /\ SingleBehaviour.code = 500
    /\ ret.value.status = "success"

\* C6: when the fetch exceeds its timeout the result has status "error" and the
\* message "Request timed out after N seconds", N = 30 for
\* check_website_performance and 20 for analyze_page_seo.
C6_TimeoutMessage ==
    (SingleCall /\ pc = "returned" /\ SingleBehaviour.kind = "timeout") =>
        /\ ret.value.status = "error"
        /\ ret.value.errors =
              <<"Request timed out after " \o (IF op = "perf" THEN "30" ELSE "20")
                    \o " seconds">>

\* C7: a single-URL result is all-or-nothing: with status "error" no analysis
\* section is populated (performance and response; the eight SEO sections and
\* seo_score 0), also when the failure comes after some extractors ran.
C7_AllOrNothing ==
    (SingleCall /\ pc = "returned" /\ ret.value.status = "error") =>
        IF op = "perf"
            THEN ~Populated(ret.value.performance) /\ ~Populated(ret.value.response)
        ELSE SeoSectionsEmpty(ret.value) /\ ret.value.seo_score = 0

\* C8: every call issues at most one GET per URL and a batch of n URLs at most
\* n GETs, one per position: a failed fetch is never tried again.
C8_SingleAttempt ==
    /\ Len(tasks) <= Len(urls)
    /\ \A i \in DOMAIN tasks :
          /\ tasks[i].gets <= 1
          /\ Concluded(tasks[i]) /\ tasks[i].pc = "done" => tasks[i].gets = 1

\* C8's case: in a batch a fetch has failed and its coroutine has concluded
C8_Witness ==
    /\ op = "batch" /\ Len(urls) = 3
    /\ \E i \in DOMAIN tasks :
          /\ tasks[i].pc = "done"
          /\ tasks[i].results.status = "error"
          /\ tasks[i].gets = 1

\* C9: in a batch, when the timeout fires (or any failure occurs) for one URL
\* the fetches in flight for the other URLs are not cancelled: a fetch in
\* flight stays in flight or ends with its own outcome, and the batch returns
\* only when every per-URL check has concluded.
C9_NoCancellation ==
    [][BatchCall =>
        /\ \A j \in DOMAIN tasks :
              tasks[j].pc = "fetching" =>
                  \/ tasks'[j] = tasks[j]
                  \/ tasks'[j] = PerfTaskStep(tasks[j], server[tasks[j].url])
        /\ \A i \in DOMAIN tasks :
              (tasks[i].pc = "fetching" /\ tasks'[i].pc = "done"
                  /\ tasks'[i].results.status = "error") =>
                  \A j \in DOMAIN tasks : j # i => tasks'[j] = tasks[j]
        /\ pc' \in {"returned", "raised"} =>
              \A i \in DOMAIN tasks' : Concluded(tasks'[i])]_vars

\* C9's case: one URL has timed out while another fetch is still in flight
C9_Witness ==
    /\ BatchCall /\ pc = "awaiting"
    /\ \E i, j \in DOMAIN tasks :
          /\ tasks[i].pc = "done"
          /\ tasks[i].results.errors = <<TimeoutMsg(PerfDefaultTimeout)>>
          /\ tasks[j].pc = "fetching"
          /\ ~IsFailure(server[tasks[j].url])

\* C10: check_multiple_ttfb rejects a list of more than 10 URLs with a usage
\* error before any fetch: no coroutine and no GET is started; a list of 1 to
\* 10 URLs is always dispatched, one coroutine per URL.
C10_AdapterLimit ==
    op = "ttfb" =>
        IF Len(urls) > 10
            THEN /\ tasks = <<>>
                 /\ pc = "returned"
                 /\ ret.value = [usage |-> "Error: Maximum 10 URLs allowed"]
        ELSE Len(urls) >= 1 =>
                 /\ Len(tasks) = Len(urls)
                 /\ \A i \in DOMAIN tasks :
                        tasks[i].gets = IF UrlParseRaises(NormalizeUrl(urls[i])) THEN 0 ELSE 1

\* C10's case: eleven URLs are rejected
C10_Witness ==
    /\ op = "ttfb" /\ Len(urls) = 11
    /\ pc = "returned"
    /\ ret.value = [usage |-> TooManyMsg]


\* the tiers of the grading, best first: grade, bound on ttfb, bound on total (ms)
GradeTiers ==
    << <<"A+", 200, 1000>>, <<"A", 500, 2000>>, <<"B", 800, 3000>>,
       <<"C", 1200, 5000>>, <<"D", 2000, 8000>> >>

TierHolds(k, ttfb, total_time) ==
    ttfb <= Ms(GradeTiers[k][2]) /\ total_time <= Ms(GradeTiers[k][3])

\* C11: _grade_performance returns the grade of the first tier, in the order
\* A+, A, B, C, D, whose two bounds both hold, and F when no tier matches; a
\* value on a bound belongs to the tier.
C11_FirstMatchingTier ==
    (op = "_grade_performance" /\ pc = "returned") =>
        LET matching == {k \in 1..5 : TierHolds(k, args.ttfb, args.total_time)}
        IN  ret.value = IF matching = {} THEN "F" ELSE GradeTiers[SetMin(matching)][1]

\* C11's case: the ttfb is on the bound of A+ and the total just outside it
C11_Witness ==
    /\ op = "_grade_performance" /\ pc = "returned"
    /\ args.ttfb = Ms(200) /\ args.total_time = Ms(1000) + 1
    /\ ret.value = "A"

\* the rank of a grade, 1 the best
GradeRank(g) ==
    CASE g = "A+" -> 1 [] g = "A" -> 2 [] g = "B" -> 3
      [] g = "C" -> 4 [] g = "D" -> 5 [] g = "F" -> 6

\* C12: grading is total and monotonic: one grade of A+, A, B, C, D, F is
\* returned for every ttfb and total, and a larger ttfb with the same total, or
\* a larger total with the same ttfb, never gets a better grade.
C12_GradeMonotonic ==
    (op = "_grade_performance" /\ pc = "returned") =>
        /\ ret.value \in {"A+", "A", "B", "C", "D", "F"}
        /\ \A t \in Around(TtfbThresholds) :
              t >= args.ttfb =>
                  GradeRank(GradePerformance(t, args.total_time)) >= GradeRank(ret.value)
        /\ \A t \in Around(TotalThresholds) :
              t >= args.total_time =>
                  GradeRank(GradePerformance(args.ttfb, t)) >= GradeRank(ret.value)

\* C12's case: a middle grade, with better and worse grades on either side
C12_Witness ==
    /\ op = "_grade_performance" /\ pc = "returned"
    /\ args.ttfb = Ms(500) + 1 /\ args.total_time = Ms(2000) + 1
    /\ ret.value = "B"

HighTtfbAdvice == "High TTFB detected - consider server optimization or CDN"
CachingAdvice == "TTFB could be improved with server-side caching"
OptimizeAdvice == "Page load time is slow - optimize images and resources"
MinifyAdvice == "Consider minifying CSS/JS and enabling compression"
PositiveMessage == "Performance looks good! Consider monitoring regularly"

InList(x, list) == \E i \in 1..Len(list) : list[i] = x

\* C14: _get_recommendations never returns an empty list: at most one TTFB
\* advice (high TTFB when ttfb > 1000, else caching when ttfb > 500), then at
\* most one load-time advice (optimize when total > 5000, else minify when
\* total > 3000), and exactly the positive message iff ttfb <= 500 and
\* total <= 3000.
C14_RecommendationsNeverEmpty ==
    (op = "_get_recommendations" /\ pc = "returned") =>
        LET r     == ret.value
            ttfb  == args.ttfb
            total == args.total_time
        IN  /\ Len(r) >= 1 /\ Len(r) <= 2
            /\ InList(HighTtfbAdvice, r) <=> ttfb > Ms(1000)
            /\ InList(CachingAdvice, r) <=> (ttfb > Ms(500) /\ ttfb <= Ms(1000))
            /\ InList(OptimizeAdvice, r) <=> total > Ms(5000)
            /\ InList(MinifyAdvice, r) <=> (total > Ms(3000) /\ total <= Ms(5000))
            /\ (r = <<PositiveMessage>>) <=> (ttfb <= Ms(500) /\ total <= Ms(3000))
            /\ InList(PositiveMessage, r) => Len(r) = 1
            /\ Len(r) = 2 => /\ r[1] \in {HighTtfbAdvice, CachingAdvice}
                             /\ r[2] \in {OptimizeAdvice, MinifyAdvice}

\* C14's case: fast on both counts, the positive message alone
C14_Witness ==
    /\ op = "_get_recommendations" /\ pc = "returned"
    /\ args.ttfb = Ms(500) /\ args.total_time = Ms(3000)
    /\ ret.value = <<PositiveMessage>>


\* C13: in every successful performance result the reported download_time_ms
\* is the reported total_time_ms minus the reported ttfb_ms exactly, with
\* 0 <= ttfb_ms <= total_time_ms.
C13_DownloadIsDifference ==
    (op = "perf" /\ pc = "returned" /\ ret.value.status = "success") =>
        LET p == ret.value.performance
        IN  /\ p.download_time_ms = p.total_time_ms - p.ttfb_ms
            /\ p.ttfb_ms >= 0
            /\ p.total_time_ms >= 0
            /\ p.ttfb_ms <= p.total_time_ms


\* the six sub-scores of a result, in the order title, meta description,
\* headers, content, images, technical
SubScores(r) ==
    <<r.title_analysis.score, r.meta_analysis.description.score,
      r.header_analysis.score, r.content_analysis.score, r.image_analysis.score,
      IF 100 - 20 * Len(r.technical_seo.issues) > 0
          THEN 100 - 20 * Len(r.technical_seo.issues) ELSE 0>>

\* the weights of the sub-scores, in hundredths
Weights == <<20, 15, 15, 20, 10, 20>>

WeightedSum(r) ==
    LET sc == SubScores(r)
    IN  sc[1] * Weights[1] + sc[2] * Weights[2] + sc[3] * Weights[3]
            + sc[4] * Weights[4] + sc[5] * Weights[5] + sc[6] * Weights[6]

\* C15: for every successfully analysed page seo_score is an integer in
\* [0,100], the weighted sum title*0.20 + description*0.15 + headers*0.15 +
\* content*0.20 + images*0.10 + technical*0.20 rounded to the nearest integer,
\* and each of the six sub-scores is in [0,100].
C15_SeoScoreWeightedSum ==
    (op = "analysis" /\ pc = "returned" /\ ret.value.status = "success") =>
        LET r == ret.value
        IN  /\ r.seo_score \in 0..100
            /\ \A k \in 1..6 : SubScores(r)[k] \in 0..100
            /\ 100 * r.seo_score - WeightedSum(r) \in -50..50

\* C15's case: a page with parts missing, its score strictly between 0 and 100
\* and the weighted sum not a whole number
C15_Witness ==
    /\ op = "analysis" /\ pc = "returned" /\ ret.value.status = "success"
    /\ ~ret.value.title_analysis.exists
    /\ ret.value.seo_score > 0 /\ ret.value.seo_score < 100
    /\ WeightedSum(ret.value) % 100 # 0

\* the penalty the content score shows for the word count
WordPenalty(c) ==
    100 - c.score - (IF InList("Low text-to-HTML ratio (< 15%)", c.issues) THEN 15 ELSE 0)

\* C19: in _analyze_content fewer than 150 words give the "Very thin content"
\* issue and 40 points off instead of the "thin" issue, 150 to 299 words give
\* the "thin" issue and 25 points off, 300 words or more give neither.
C19_VeryThinTakesPrecedence ==
    (op = "_analyze_content" /\ pc = "returned") =>
        LET c         == ret.value
            thin      == InList("Content is thin (< 300 words)", c.issues)
            very_thin == InList("Very thin content (< 150 words)", c.issues)
        IN  IF c.word_count < 150
                THEN very_thin /\ ~thin /\ WordPenalty(c) = 40
            ELSE IF c.word_count < 300
                THEN thin /\ ~very_thin /\ WordPenalty(c) = 25
            ELSE ~thin /\ ~very_thin /\ WordPenalty(c) = 0

\* C20: the header score is 100 minus 15 an issue and within [0,100] for every
\* document; the issues are the missing-H1 issue when there is no H1, the
\* multiple-H1 issue when there are several, and "No header tags found" when
\* there is no H1..H6 at all.
C20_HeaderScore ==
    (op = "_analyze_headers" /\ pc = "returned") =>
        LET r          == ret.value
            h          == args.page.h
            missing_h1 == InList("Missing H1 tag", r.issues)
            multiple   == \E i \in 1..Len(r.issues) :
                              StartsWith(r.issues[i], "Multiple H1 tags found")
            no_headers == InList("No header tags found", r.issues)
            n          == (IF missing_h1 THEN 1 ELSE 0) + (IF multiple THEN 1 ELSE 0)
                              + (IF no_headers THEN 1 ELSE 0)
        IN  /\ r.score = 100 - 15 * Len(r.issues)
            /\ r.score >= 0 /\ r.score <= 100
            /\ missing_h1 <=> Len(h[1]) = 0
            /\ multiple <=> Len(h[1]) > 1
            /\ no_headers <=> \A i \in 1..6 : Len(h[i]) = 0
            /\ Len(r.issues) = n

\* C20's case: a document without any header, the lowest header score
C20_Witness ==
    /\ op = "_analyze_headers" /\ pc = "returned"
    /\ \A i \in 1..6 : args.page.h[i] = <<>>
    /\ Len(ret.value.issues) = 2
    /\ ret.value.score = 70


\* the page of the scenario: a 45-character title, a 140-character meta
\* description, one H1, 400 words, 3 images that all have alt text
ScenarioPage(page) ==
    /\ page.title.exists /\ Len(Strip(page.title.text)) = 45
    /\ page.description.exists /\ AttrTruthy(page.description.content)
    /\ Len(Strip(page.description.content.value)) = 140
    /\ Len(page.h[1]) = 1
    /\ WordCount(page.text) = 400
    /\ Len(page.imgs) = 3 /\ \A i \in 1..3 : HasAltText(page.imgs[i])

\* the exchange of the scenario: 200 over HTTPS, TTFB 150 ms, 350 ms in total
ScenarioFetch ==
    /\ SingleCall /\ pc = "returned"
    /\ StartsWith(tasks[1].url, "https://")
    /\ SingleBehaviour.kind = "http" /\ SingleBehaviour.code = 200
    /\ SingleBehaviour.final = ""
    /\ SingleBehaviour.t1 = Ms(150) /\ SingleBehaviour.t2 = Ms(350)
    /\ ScenarioPage(SingleBehaviour.page)

\* C16: for a page fetched with status 200 over HTTPS in 350 ms total and
\* 150 ms TTFB, with a 45-character title, a 140-character meta description,
\* exactly one H1, 400 words and 3 images with alt text, the performance grade
\* is "A+", the SEO critical_issues list is empty and seo_score >= 90.
C16_EndToEndScenario ==
    ScenarioFetch =>
        /\ op = "perf" =>
              /\ ret.value.status = "success"
              /\ ret.value.performance.grade = "A+"
        /\ (op = "seo" /\ ret.value.status = "success") =>
              /\ ret.value.critical_issues = <<>>
              /\ ret.value.seo_score >= 90

\* C16's case: the SEO analysis of the scenario's page has succeeded
C16_Witness ==
    /\ ScenarioFetch
    /\ op = "seo" /\ ret.value.status = "success"
    /\ ret.value.seo_score >= 90

\* C17: normalization prepends "https://" exactly when the input does not
\* start with "http://" or "https://" and leaves it unchanged otherwise; it is
\* idempotent; the url field of the returned result is the normalized URL.
C17_UrlNormalization ==
    (SingleCall /\ pc = "returned") =>
        LET u        == urls[1]
            prefixed == \/ (Len(u) >= 7 /\ SubSeq(u, 1, 7) = "http://")
                        \/ (Len(u) >= 8 /\ SubSeq(u, 1, 8) = "https://")
        IN  /\ ret.value.url = IF prefixed THEN u ELSE "https://" \o u
            /\ NormalizeUrl(ret.value.url) = ret.value.url
            /\ tasks[1].url = ret.value.url

\* C17's case: an input that starts with "http" but has no scheme
C17_Witness ==
    /\ SingleCall /\ pc = "returned"
    /\ urls = <<"httpx">>
    /\ ret.value.url = "https://httpx"

\* C18: concurrent calls share no mutable state: a step of one per-URL check
\* leaves the result, the errors and the timings of every other check as they
\* are, a result is not changed once its check has concluded, and it depends
\* only on the check's own URL and its own fetch.
C18_NoSharedState ==
    [][BatchCall =>
        \A i \in DOMAIN tasks :
            /\ tasks[i].pc # "fetching" => tasks'[i] = tasks[i]
            /\ tasks'[i] # tasks[i] =>
                  /\ \A j \in DOMAIN tasks : j # i => tasks'[j] = tasks[j]
                  /\ tasks'[i].results =
                         PerfFinish(PerfInitialResults(NormalizeUrl(urls[i])),
                                    server[NormalizeUrl(urls[i])])]_vars

\* C18's case: two checks of the same URL have both failed, each with its own
\* single error
C18_Witness ==
    /\ BatchCall /\ Len(tasks) >= 2
    /\ urls[1] = urls[2]
    /\ tasks[1].pc = "done" /\ tasks[2].pc = "done"
    /\ Len(tasks[1].results.errors) = 1
    /\ Len(tasks[2].results.errors) = 1


\* no lower-case letter in s
NoLowerCase(s) == \A i \in 1..Len(s) : ~HasChar(LowerLetters, SubSeq(s, i, i))

Floor0(n) == IF n > 0 THEN n ELSE 0

\* C21: _analyze_title scores a missing title 0 with the issue "Missing title
\* tag"; a present title starts at 100 and gets exactly one length rule (0:
\* -50; 1..29: -20, too short; over 60: -10, may be truncated; 30..60: none),
\* then -5 for more than two '|' and -10 for an all-uppercase title longer than
\* 10 characters, floored at 0.
C21_TitleRules ==
    (op = "_analyze_title" /\ pc = "returned") =>
        LET r == ret.value
            t == args.page.title
        IN  IF ~t.exists
                THEN ~r.exists /\ r.score = 0 /\ r.issues = <<"Missing title tag">>
            ELSE
            LET text      == Strip(t.text)
                n         == Len(text)
                empty     == InList("Title tag is empty", r.issues)
                short     == InList("Title is too short (< 30 characters)", r.issues)
                truncated == InList("Title may be truncated in search results (> 60 characters)",
                                    r.issues)
                seps      == InList("Too many separators in title", r.issues)
                caps      == InList("Title is in ALL CAPS", r.issues)
                Pen(b, p) == IF b THEN p ELSE 0
            IN  /\ r.exists /\ r.length = n
                /\ empty <=> n = 0
                /\ short <=> (n >= 1 /\ n <= 29)
                /\ truncated <=> n > 60
                /\ seps <=> CountChar(text, "|") > 2
                /\ caps <=> (n > 10 /\ NoLowerCase(text))
                /\ Len(r.issues) = Pen(empty, 1) + Pen(short, 1) + Pen(truncated, 1)
                                       + Pen(seps, 1) + Pen(caps, 1)
                /\ r.score = Floor0(100 - Pen(empty, 50) - Pen(short, 20) - Pen(truncated, 10)
                                        - Pen(seps, 5) - Pen(caps, 10))

\* C21's case: a title of 30 characters between blanks, no length issue
C21_Witness ==
    /\ op = "_analyze_title" /\ pc = "returned"
    /\ args.page.title.exists
    /\ Len(args.page.title.text) = 32
    /\ ret.value.length = 30
    /\ ret.value.issues = <<>>
    /\ ret.value.score = 100

\* C22: _analyze_meta_description returns exists false, score 0 and the single
\* issue "Missing meta description" when the tag is absent or its content is
\* absent or empty; otherwise exists true and 100 minus exactly one penalty by
\* the trimmed length (0: -50; 1..119: -15; over 160: -10; 120..160: none).
C22_MetaDescriptionRules ==
    (op = "_analyze_meta_description" /\ pc = "returned") =>
        LET r == ret.value
            d == args.page.description
        IN  IF ~d.exists \/ ~d.content.exists \/ d.content.value = ""
                THEN /\ ~r.exists /\ r.score = 0
                     /\ r.issues = <<"Missing meta description">>
            ELSE
            LET n == Len(Strip(d.content.value))
            IN  /\ r.exists /\ r.length = n
                /\ r.score = 100 - (IF n = 0 THEN 50
                                    ELSE IF n <= 119 THEN 15
                                    ELSE IF n > 160 THEN 10 ELSE 0)
                /\ Len(r.issues) = IF n >= 120 /\ n <= 160 THEN 0 ELSE 1

\* C22's case: a content of blanks: the tag counts as present, of length 0
C22_Witness ==
    /\ op = "_analyze_meta_description" /\ pc = "returned"
    /\ args.page.description.exists
    /\ args.page.description.content = Attr("  ")
    /\ ret.value.exists
    /\ ret.value.score = 50


\* C23: _analyze_images counts an image as having alt text only when the alt
\* attribute exists and is non-empty after trimming; with + without = total;
\* with no image the score is 100 with only the "No images found" issue;
\* otherwise the score is the rounded percentage of images with alt text, in
\* [0,100], and a missing-alt issue is there exactly when an image lacks one.
C23_ImageRules ==
    (op = "_analyze_images" /\ pc = "returned") =>
        LET r     == ret.value
            imgs  == args.page.imgs
            with  == Cardinality({i \in 1..Len(imgs) :
                         imgs[i].exists /\ \E k \in 1..Len(imgs[i].value) :
                             ~IsSpace(SubSeq(imgs[i].value, k, k))})
            diff  == 100 * with - r.score * Len(imgs)
        IN  /\ r.total_images = Len(imgs)
            /\ r.images_with_alt = with
            /\ r.images_with_alt + r.images_without_alt = r.total_images
            /\ r.score \in 0..100
            /\ IF Len(imgs) = 0
                   THEN r.score = 100 /\ r.issues = <<"No images found">>
               ELSE /\ 2 * diff <= Len(imgs) /\ 2 * diff >= -Len(imgs)
                    /\ r.issues # <<>> <=> r.images_without_alt > 0
                    /\ Len(r.issues) <= 1
                    /\ ~InList("No images found", r.issues)

\* C23's case: three images, one with a text, one with blanks, one without alt
C23_Witness ==
    /\ op = "_analyze_images" /\ pc = "returned"
    /\ args.page.imgs = <<Attr("a cat"), Attr("  "), NoAttr>>
    /\ ret.value.images_with_alt = 1
    /\ ret.value.score = 33

\* the essential keys a list of meta tags gives a non-empty value (the last
\* tag of a key counts)
EssentialPresent(metas, keys) ==
    {k \in keys :
        \E i \in 1..Len(metas) :
            /\ metas[i].key = k
            /\ \A j \in (i + 1)..Len(metas) : metas[j].key # k
            /\ metas[i].content.exists /\ metas[i].content.value # ""}

\* C24: the Open Graph score is 25 times the number of keys among title,
\* description, image, url present with a non-empty value, has_essential true
\* exactly at 100; the Twitter score is 33 times the number of keys among card,
\* title, description present with a non-empty value, capped at 100,
\* has_essential true exactly when that score is at least 100.
C24_SocialScores ==
    (op = "_analyze_social_media_tags" /\ pc = "returned") =>
        LET og  == ret.value.open_graph
            tw  == ret.value.twitter_cards
            n   == Cardinality(EssentialPresent(args.page.og,
                                   {"title", "description", "image", "url"}))
            m   == Cardinality(EssentialPresent(args.page.twitter,
                                   {"card", "title", "description"}))
        IN  /\ og.score = 25 * n
            /\ og.has_essential <=> og.score = 100
            /\ tw.score = IF 33 * m > 100 THEN 100 ELSE 33 * m
            /\ tw.has_essential <=> tw.score >= 100

\* C24's case: two of the four Open Graph keys have a value, one an empty content
C24_Witness ==
    /\ op = "_analyze_social_media_tags" /\ pc = "returned"
    /\ EssentialPresent(args.page.og, {"title", "description", "image", "url"})
           = {"title", "image"}
    /\ "url" \in DOMAIN ret.value.open_graph.tags
    /\ ret.value.open_graph.score = 50
    /\ ~ret.value.open_graph.has_essential

\* C25: twitter_cards.has_essential is true whenever the three essential
\* Twitter keys are present with non-empty values, as open_graph.has_essential
\* is true whenever the four essential Open Graph keys are.
C25_TwitterHasEssential ==
    (op = "_analyze_social_media_tags" /\ pc = "returned") =>
        /\ EssentialPresent(args.page.og, {"title", "description", "image", "url"})
               = {"title", "description", "image", "url"}
               => ret.value.open_graph.has_essential
        /\ EssentialPresent(args.page.twitter, {"card", "title", "description"})
               = {"card", "title", "description"}
               => ret.value.twitter_cards.has_essential


\* the entries of a list that are the same as x
Occurrences(x, list) == Cardinality({i \in 1..Len(list) : list[i] = x})

C27_RobotsDirectives ==
    (op = "_analyze_robots_meta" /\ pc = "returned") =>
        LET r   == ret.value
            tag == args.page.robots
            content == IF tag.content.exists THEN tag.content.value ELSE ""
            at  == {i \in 1..Len(content) : SubSeq(content, i, i) = ","}
            n   == Cardinality(at) + 1
            Comma(j)  == CHOOSE p \in at : Cardinality({q \in at : q < p}) = j - 1
            First(j)  == IF j = 1 THEN 1 ELSE Comma(j - 1) + 1
            Last(j)   == IF j = n THEN Len(content) ELSE Comma(j) - 1
            One(cond) == IF cond THEN 1 ELSE 0
            noindex   == InList("noindex", r.directives)
            nofollow  == InList("nofollow", r.directives)
        IN  IF ~tag.exists THEN r.directives = <<>> /\ r.issues = <<>>
            ELSE /\ Len(r.directives) = n
                 /\ \A j \in 1..n :
                        r.directives[j] = Lower(Strip(SubSeq(content, First(j), Last(j))))
                 /\ Occurrences("Page is set to NOINDEX - won't appear in search results",
                                r.issues) = One(noindex)
                 /\ Occurrences("Page is set to NOFOLLOW - links won't be followed",
                                r.issues) = One(nofollow)
                 /\ Len(r.issues) = One(noindex) + One(nofollow)

\* C27's case: the content "noindex, nofollow"
C27_Witness ==
    /\ op = "_analyze_robots_meta" /\ pc = "returned"
    /\ args.page.robots.exists
    /\ args.page.robots.content = Attr("noindex, nofollow")
    /\ ret.value.directives = <<"noindex", "nofollow">>
    /\ Len(ret.value.issues) = 2


\* the technical issues a load time (in hundredths of a ms) and a final URL
\* are to give
TechnicalIssuesFit(issues, load_time, final_url) ==
    LET One(cond) == IF cond THEN 1 ELSE 0
        slow    == Occurrences("Slow page load time (> 3 seconds)", issues)
        improve == Occurrences("Page load time could be improved (> 2 seconds)", issues)
        http    == Occurrences("Page is not served over HTTPS", issues)
    IN  /\ slow = One(load_time > 300000)
        /\ improve = One(load_time > 200000 /\ load_time <= 300000)
        /\ slow + improve <= 1
        /\ http = One(~StartsWith(final_url, "https"))
        /\ Len(issues) = slow + improve + http

\* C28: _analyze_technical_seo reports at most one load-time issue (the slow
\* one above 3000 ms, else the could-be-improved one above 2000 ms) and the
\* not-HTTPS issue exactly when the final URL after redirects is not HTTPS; the
\* technical sub-score in the overall score is max(0, 100 - 20 * issues).
C28_TechnicalRules ==
    /\ (op = "_analyze_technical_seo" /\ pc = "returned") =>
           TechnicalIssuesFit(ret.value.issues, args.page_data.timing.total_ms,
                              args.page_data.status.final_url)
    /\ (op = "analysis" /\ pc = "returned" /\ ret.value.status = "success") =>
           LET r == ret.value
               n == Len(r.technical_seo.issues)
               technical == IF 100 - 20 * n > 0 THEN 100 - 20 * n ELSE 0
               others == r.title_analysis.score * 20
                         + r.meta_analysis.description.score * 15
                         + r.header_analysis.score * 15
                         + r.content_analysis.score * 20
                         + r.image_analysis.score * 10
           IN  /\ TechnicalIssuesFit(r.technical_seo.issues, r.technical_seo.load_time_ms,
                      IF args.b.final = "" THEN r.url ELSE args.b.final)
               /\ r.technical_seo.load_time_ms * 10 = args.b.t2
               /\ 100 * r.seo_score - (others + technical * 20) \in -50..50

\* C28's case: a load time of exactly 3000 ms after a redirect to HTTP gives
\* the could-be-improved issue and the not-HTTPS issue
C28_Witness ==
    /\ op = "_analyze_technical_seo" /\ pc = "returned"
    /\ args.page_data.timing.total_ms = 300000
    /\ ret.value.issues = <<"Page load time could be improved (> 2 seconds)",
                            "Page is not served over HTTPS">>


\* a result with a final status that agrees with its errors list
StatusSettled(r) ==
    /\ r.status \in {"success", "error"}
    /\ r.status = "success" <=> r.errors = <<>>
    /\ r.status = "error" => Len(r.errors) = 1

\* C29: every result check_website_performance or analyze_page_seo returns, to
\* its caller or to the batch that runs it, has status "success" or "error",
\* never "unknown"; the status is "success" exactly when errors is empty, and an
\* error result has exactly one error message.
C29_StatusSettled ==
    /\ (SingleCall /\ pc = "returned") => StatusSettled(ret.value)
    /\ BatchCall =>
           \A i \in DOMAIN tasks : tasks[i].pc = "done" => StatusSettled(tasks[i].results)

\* C29's case: an analysis that raises after five sections has returned an
\* error result
C29_Witness ==
    /\ op = "seo" /\ pc = "returned"
    /\ ret.value.status = "error"
    /\ Populated(ret.value.content_analysis)
    /\ ~Populated(ret.value.image_analysis)
    /\ Len(ret.value.errors) = 1


\* check_multiple_websites has returned a list with an entry per URL, each
\* with status "success" or "error"
BatchReturned ==
    /\ op = "batch" /\ pc = "returned"
    /\ Len(ret.value) = Len(urls)
    /\ \A i \in 1..Len(urls) : ret.value[i].status \in {"success", "error"}

\* C30: every call of check_multiple_websites eventually returns: when every
\* started fetch ends (it completes or its timeout fires), every per-URL check
\* concludes, as success or error, and the batch returns, after the last of
\* them has concluded, whatever the number and the position of the failing URLs.
C30_BatchTerminates ==
    /\ (op = "batch") ~> BatchReturned
    /\ (op = "batch") ~> (\A i \in DOMAIN tasks : Concluded(tasks[i]))
    /\ [](op = "batch" /\ pc # "awaiting" => \A i \in DOMAIN tasks : Concluded(tasks[i]))

\* C30's case: a batch of three has returned, the first URL timed out, the
\* second could not be parsed, the third refused the connection
C30_Witness ==
    /\ BatchReturned
    /\ Len(urls) = 3
    /\ tasks[1].pc = "done" /\ server[tasks[1].url] = TimedOut
    /\ tasks[2].pc = "raised"
    /\ tasks[3].pc = "done" /\ server[tasks[3].url] = ClientError
    /\ \A i \in 1..3 : ret.value[i].status = "error"

====
